---- MODULE Spec2Model ----
(***************************************************************************)
(* A model of the poststation SDK (tools/poststation-sdk/src/lib.rs):      *)
(*   - the COBS stream framer of TcpCommsTx / TcpCommsRx (SpecFramer);     *)
(*   - the connect handshake and the typed / dynamic client operations of  *)
(*     PoststationClient on top of the postcard-rpc HostClient (Spec).     *)
(***************************************************************************)
EXTENDS Integers, Sequences, FiniteSets, TLC

\* ------------------------------------------------------------------------
\* Bounds and scaled program constants
\* ------------------------------------------------------------------------

\* Total number of bytes the sender may put on the wire in one behaviour.
MaxWire == 7

\* `1024 * 1024` of receive_inner, scaled down so that the accumulator can be
\* filled: the cap on the length of the accumulator.
MaxAccum == 4

\* The length of rx_buf (`[0u8; 1024]`), scaled down with MaxAccum: the most
\* bytes one socket read returns.
ReadChunk == 2

\* The byte values payloads are built from (0 is the frame terminator).
PayloadBytes == {0, 1, 2}

\* ------------------------------------------------------------------------
\* Sequence helpers
\* ------------------------------------------------------------------------

Min(a, b) == IF a < b THEN a ELSE b

Last(s) == s[Len(s)]

IsPrefix(s, t) == Len(s) <= Len(t) /\ SubSeq(t, 1, Len(s)) = s

RECURSIVE Flatten(_)
Flatten(ss) == IF ss = <<>> THEN <<>> ELSE Head(ss) \o Flatten(Tail(ss))

HasZero(b) == \E i \in 1..Len(b) : b[i] = 0

\* `self.buf.iter().position(|b| *b == 0)`, 1-based; 0 when there is none.
FirstZero(b) ==
    IF HasZero(b) THEN CHOOSE i \in 1..Len(b) : b[i] = 0 /\ \A j \in 1..(i - 1) : b[j] # 0
    ELSE 0

CountZeros(b) == Cardinality({i \in 1..Len(b) : b[i] = 0})

\* All sequences over S of length at most n.
RECURSIVE SeqsUpTo(_, _)
SeqsUpTo(S, n) ==
    IF n = 0 THEN {<<>>}
    ELSE LET shorter == SeqsUpTo(S, n - 1)
         IN shorter \cup {Append(s, x) : s \in {t \in shorter : Len(t) = n - 1}, x \in S}

\* ------------------------------------------------------------------------
\* COBS, as cobs::encode_vec and cobs::decode_vec compute it
\* ------------------------------------------------------------------------

\* The encoder's block loop: blk holds the non-zero bytes of the block being
\* collected, rest the input not yet pushed.  A zero byte closes the block; so
\* does the 254th non-zero byte (code 0xFF), and a new block is opened.
RECURSIVE EncodeFrom(_, _)
EncodeFrom(blk, rest) ==
    IF rest = <<>> THEN <<Len(blk) + 1>> \o blk
    ELSE IF Head(rest) = 0 THEN (<<Len(blk) + 1>> \o blk) \o EncodeFrom(<<>>, Tail(rest))
    ELSE IF Len(blk) + 1 = 254
         THEN (<<255>> \o Append(blk, Head(rest))) \o EncodeFrom(<<>>, Tail(rest))
    ELSE EncodeFrom(Append(blk, Head(rest)), Tail(rest))

\* A plausible slip: the payload is written as it is, without byte stuffing.
encode_vec_unstuffed(data) == data

\* cobs::encode_vec: nothing was pushed => nothing is written.
encode_vec(data) == IF data = <<>> THEN <<>> ELSE EncodeFrom(<<>>, data)

\* The decoder's state machine (Idle / Grab(n) / GrabChain(n)) fed byte by
\* byte; res is "complete" (a terminator closed the message), "err" (a
\* terminator inside a block) or "more" (the source ran out).
RECURSIVE Feed(_, _, _, _)
Feed(st, n, out, src) ==
    IF src = <<>> THEN [res |-> "more", st |-> st, n |-> n, out |-> out]
    ELSE LET b == Head(src)
             r == Tail(src)
         IN IF st = "Idle"
            THEN IF b = 0 THEN Feed("Idle", 0, out, r)
                 ELSE IF b = 255 THEN Feed("GrabChain", 254, out, r)
                 ELSE Feed("Grab", b - 1, out, r)
            ELSE IF st = "Grab"
            THEN IF n = 0
                 THEN IF b = 0 THEN [res |-> "complete", st |-> "Idle", n |-> 0, out |-> out]
                      ELSE IF b = 255 THEN Feed("GrabChain", 254, Append(out, 0), r)
                      ELSE Feed("Grab", b - 1, Append(out, 0), r)
                 ELSE IF b = 0 THEN [res |-> "err", st |-> "Idle", n |-> 0, out |-> out]
                      ELSE Feed("Grab", n - 1, Append(out, b), r)
            ELSE IF n = 0
                 THEN IF b = 0 THEN [res |-> "complete", st |-> "Idle", n |-> 0, out |-> out]
                      ELSE IF b = 255 THEN Feed("GrabChain", 254, out, r)
                      ELSE Feed("Grab", b - 1, out, r)
                 ELSE IF b = 0 THEN [res |-> "err", st |-> "Idle", n |-> 0, out |-> out]
                      ELSE Feed("GrabChain", n - 1, Append(out, b), r)

\* cobs::decode_vec: [ok |-> TRUE, msg |-> the payload] or [ok |-> FALSE].
decode_vec(source) ==
    LET f == Feed("Idle", 0, <<>>, source)
    IN IF f.res = "complete" THEN [ok |-> TRUE, msg |-> f.out]
       ELSE IF f.res = "err" THEN [ok |-> FALSE, msg |-> <<>>]
       ELSE IF source # <<>> /\ Last(source) = 0 THEN [ok |-> FALSE, msg |-> <<>>]
       ELSE LET g == Feed(f.st, f.n, f.out, <<0>>)
            IN IF g.res = "complete" THEN [ok |-> TRUE, msg |-> g.out]
               ELSE [ok |-> FALSE, msg |-> <<>>]

\* ------------------------------------------------------------------------
\* Values on the RPC layer
\* ------------------------------------------------------------------------

\* The token of the handshake: `send_resp::<PingEndpoint>(&42)`.
PingToken == 42

\* What a daemon may echo to the ping.
PingEchoes == {PingToken, PingToken + 1}

\* The task of the connect call and the tasks that use the client handle.
Callers == {"c1", "c2"}

Tasks == {"conn"} \cup Callers

Serials == {1, 2}

\* The caller-chosen seq_no of a proxied call.
SeqNos == {0, 7}

\* postcard-rpc's WireError variants the model draws from.
WireErrors == {"UnknownKey", "DeserFailed"}

\* The messages of ProxyResponse::OtherErr the model draws from.
ServerMsgs == {"device disconnected"}

\* The bodies a device may answer with.
Bodies == {<<>>, <<1>>, <<128>>}

\* The longest endpoint list of a schema report.
MaxEndpoints == 2

\* An entry of SchemaReport::endpoints.
EpReport(path, rk, sk, rt, st) ==
    [path |-> path, req_key |-> rk, resp_key |-> sk, req_ty |-> rt, resp_ty |-> st]

NoEndpoint == EpReport("", 0, 0, "", "")

\* The endpoint reports a device may publish: two share a path, two share
\* their keys.
EndpointPool ==
    { EpReport("ep/a", 1, 2, "u8", "i8"),
      EpReport("ep/a", 3, 4, "bool", "u8"),
      EpReport("ep/b", 1, 2, "u8", "i8") }

\* Option<SchemaReport>, as GetSchemasEndpoint returns it.
SomeReport(eps, tps) == [some |-> TRUE, endpoints |-> eps, topics_out |-> tps]

NoneReport == [some |-> FALSE, endpoints |-> <<>>, topics_out |-> <<>>]

\* The reports drawn for an endpoint call, which reads `endpoints` only.
SchemaReplies ==
    {NoneReport} \cup {SomeReport(eps, <<>>) : eps \in SeqsUpTo(EndpointPool, MaxEndpoints)}

\* The longest topics_out list of a schema report.
MaxTopics == 1

\* An entry of SchemaReport::topics_out.
TpReport(path, key, ty) == [path |-> path, key |-> key, ty |-> ty]

\* The topic reports a device may publish: both share a path.
TopicPool == {TpReport("tp/a", 5, "u8"), TpReport("tp/a", 6, "bool")}

\* The reports drawn for a stream call, which reads `topics_out` only.  The
\* device with serial 2 is known and publishes one topic; the device with
\* serial 1 may be unknown or publish any list.
TopicReplies(serial) ==
    IF serial = 2 THEN {SomeReport(<<>>, <<TpReport("tp/a", 5, "u8")>>)}
    ELSE {NoneReport} \cup {SomeReport(<<>>, tps) : tps \in SeqsUpTo(TopicPool, MaxTopics)}

\* The topic types T a caller may be compiled against (T::PATH, T::TOPIC_KEY,
\* T::Message).
TypedTopics == {TpReport("tp/a", 6, "bool")}

\* The paths a dynamic stream caller may name.
TopicPaths == {"tp/a", "tp/c"}

\* The Uuidv7 stream ids the daemon hands out.
StreamIds == {1, 2}

\* TopicStreamRequest
TopicStreamRequest(serial, path, key) == [serial |-> serial, path |-> path, key |-> key]

\* TopicStreamResult: Started(id), NoDeviceKnown, DeviceDisconnected, NoSuchTopic.
TopicStreamResult(variant, id) == [variant |-> variant, id |-> id]

\* The replies to StartStream: a stream of the device with serial 2 starts
\* and gets id 2; one of the device with serial 1 may get either id, or fail.
StartReplies(serial) ==
    IF serial = 2 THEN {TopicStreamResult("Started", 2)}
    ELSE {TopicStreamResult("Started", id) : id \in StreamIds}
           \cup {TopicStreamResult(v, 0) : v \in {"NoDeviceKnown", "DeviceDisconnected", "NoSuchTopic"}}

\* TopicStreamMsg { stream_id, msg }
TopicStreamMsg(stream_id, msg) == [stream_id |-> stream_id, msg |-> msg]

\* The endpoint types E a caller may be compiled against (E::PATH,
\* E::REQ_KEY, E::RESP_KEY, E::Request, E::Response).
TypedEndpoints ==
    { EpReport("ep/a", 1, 2, "u8", "i8"),
      EpReport("ep/a", 3, 2, "bool", "i8") }

\* A value with its type: a typed Rust value ("u8", "i8", "bool", "opaque":
\* a type whose Serialize impl fails) or a JSON value ("json_num",
\* "json_bool"); booleans are 0 and 1.
Val(ty, v) == [ty |-> ty, v |-> v]

NoVal == Val("none", 0)

\* The request bodies a typed caller may pass for E.
TypedBodies(E) == {Val(E.req_ty, 1), Val("opaque", 0)}

\* The JSON values a dynamic caller may pass.
JsonValues == {Val("json_num", 1), Val("json_num", 128), Val("json_bool", 1)}

\* The paths a dynamic caller may name: one that device reports carry, one
\* that none does.
Paths == {"ep/a", "ep/c"}

\* Result<T, E> of the codecs: the bytes or the value, or a failure.
Coded(ok, bytes, val) == [ok |-> ok, bytes |-> bytes, val |-> val]

CodecErr == Coded(FALSE, <<>>, NoVal)

\* postcard::to_stdvec of a typed value.
to_stdvec(body) ==
    IF body.ty = "u8" /\ body.v \in 0..255 THEN Coded(TRUE, <<body.v>>, NoVal)
    ELSE IF body.ty = "i8" /\ body.v \in -128..127 THEN Coded(TRUE, <<body.v % 256>>, NoVal)
    ELSE IF body.ty = "bool" /\ body.v \in {0, 1} THEN Coded(TRUE, <<body.v>>, NoVal)
    ELSE CodecErr

\* postcard::from_bytes::<T>: the first byte is taken, the rest ignored.
from_bytes(ty, bytes) ==
    IF bytes = <<>> THEN CodecErr
    ELSE IF ty = "u8" THEN Coded(TRUE, <<>>, Val("u8", bytes[1]))
    ELSE IF ty = "i8"
         THEN Coded(TRUE, <<>>, Val("i8", IF bytes[1] > 127 THEN bytes[1] - 256 ELSE bytes[1]))
    ELSE IF ty = "bool" /\ bytes[1] \in {0, 1} THEN Coded(TRUE, <<>>, Val("bool", bytes[1]))
    ELSE CodecErr

\* postcard_dyn::to_stdvec_dyn: the JSON value encoded against a schema type,
\* an error when its shape does not match.
to_stdvec_dyn(ty, value) ==
    IF ty = "u8" /\ value.ty = "json_num" /\ value.v \in 0..255
    THEN Coded(TRUE, <<value.v>>, NoVal)
    ELSE IF ty = "i8" /\ value.ty = "json_num" /\ value.v \in -128..127
    THEN Coded(TRUE, <<value.v % 256>>, NoVal)
    ELSE IF ty = "bool" /\ value.ty = "json_bool" THEN Coded(TRUE, <<value.v>>, NoVal)
    ELSE CodecErr

\* postcard_dyn::from_slice_dyn: the bytes decoded against a schema type.
from_slice_dyn(ty, bytes) ==
    LET t == from_bytes(ty, bytes)
    IN IF ~t.ok THEN CodecErr
       ELSE Coded(TRUE, <<>>, Val(IF ty = "bool" THEN "json_bool" ELSE "json_num", t.val.v))

\* HostErr<WireError>
HostErr(kind, werr) == [kind |-> kind, werr |-> werr]

NoHostErr == HostErr("none", "")

HostErrs ==
    {HostErr("Wire", e) : e \in WireErrors}
        \cup {HostErr("BadResponse", ""), HostErr("Postcard", ""), HostErr("Closed", "")}

\* The outcome of a send_resp call: Ok(val), Err(err), or not there yet.
Outcome(st, val, err) == [st |-> st, val |-> val, err |-> err]

NoOutcome == Outcome("none", NoVal, NoHostErr)

\* ClientError, and the Ok of an operation.  fmt and arg are the text of the
\* String payload: its fixed part and the value formatted into it.
Res(tag, val, fmt, arg) == [tag |-> tag, val |-> val, fmt |-> fmt, arg |-> arg]

NoResult == Res("none", NoVal, "", "")

ResOk(val) == Res("Ok", val, "", "")

ClientError(tag) == Res(tag, NoVal, "", "")

Server(msg) == Res("Server", NoVal, msg, "")

Remote(fmt, arg) == Res("Remote", NoVal, fmt, arg)

Dynamic(fmt, arg) == Res("Dynamic", NoVal, fmt, arg)

\* A plausible slip: a wire error of the daemon reported as Remote.
FromHostErrWireAsRemote(value) ==
    IF value.kind = "Wire" THEN Remote("WireErr: ", value.werr)
    ELSE IF value.kind = "BadResponse" THEN ClientError("Protocol")
    ELSE IF value.kind = "Postcard" THEN ClientError("Encoding")
    ELSE ClientError("ConnectionClosed")

\* impl From<HostErr<WireError>> for ClientError
FromHostErr(value) ==
    IF value.kind = "Wire" THEN ClientError("Protocol")
    ELSE IF value.kind = "BadResponse" THEN ClientError("Protocol")
    ELSE IF value.kind = "Postcard" THEN ClientError("Encoding")
    ELSE ClientError("ConnectionClosed")

\* ProxyRequest
ProxyRequest(serial, path, rk, sk, seq_no, body) ==
    [serial |-> serial, path |-> path, req_key |-> rk, resp_key |-> sk,
     seq_no |-> seq_no, req_body |-> body]

\* ProxyResponse: Ok { resp_key, seq_no, body }, WireErr { resp_key, seq_no,
\* body } and OtherErr(msg).
ProxyResponse(variant, sk, seq_no, body, werr, msg) ==
    [variant |-> variant, resp_key |-> sk, seq_no |-> seq_no, body |-> body,
     werr |-> werr, msg |-> msg]

\* The replies a daemon may give to a proxy request: the correlation fields
\* are echoed, or are foreign values.
ProxyResponses(req) ==
    LET echoes == {<<req.resp_key, req.seq_no>>, <<0, 9>>}
    IN {ProxyResponse("Ok", e[1], e[2], b, "", "") : e \in echoes, b \in Bodies}
         \cup {ProxyResponse("WireErr", req.resp_key, req.seq_no, <<>>, w, "") : w \in WireErrors}
         \cup {ProxyResponse("OtherErr", 0, 0, <<>>, "", m) : m \in ServerMsgs}

\* The operations that open a stream.
StreamOps == {"stream_topic", "stream_topic_json"}

\* Option<SchemaReport> with its topics_in list, which the publishes read.
FullReport(tps_out, tps_in) ==
    [some |-> TRUE, endpoints |-> <<>>, topics_out |-> tps_out, topics_in |-> tps_in]

\* The operations that read the topic lists of the schema report.
TopicOps ==
    {"get_device_topics_out_by_path_raw", "get_device_topics_out_by_path_json",
     "publish_topic", "publish_topic_json"}

\* The reports drawn for a topic history call or a publish.
TopicOpReplies ==
    {NoneReport} \cup {FullReport(o, i) : o, i \in SeqsUpTo(TopicPool, MaxTopics)}

\* TopicRequest { serial, count, path, key }
TopicRequest(serial, count, path, key) ==
    [serial |-> serial, count |-> count, path |-> path, key |-> key]

\* Option<Vec<TopicMsg>>, as GetTopicsEndpoint returns it; msgs are the msg
\* fields of the TopicMsg values.
OptVecTopicMsg(some, msgs) == [some |-> some, msgs |-> msgs]

\* The replies to GetTopics: the device is not known, or one message that a
\* u8 or bool topic decodes, or one that is too short.
TopicHistories == {OptVecTopicMsg(FALSE, <<>>), OptVecTopicMsg(TRUE, <<<<1>>>>), OptVecTopicMsg(TRUE, <<<<>>>>)}

\* PublishRequest { serial, path, topic_key, seq_no, topic_body }
PublishRequest(serial, path, topic_key, seq_no, topic_body) ==
    [serial |-> serial, path |-> path, key |-> topic_key, seq_no |-> seq_no, topic_body |-> topic_body]

\* PublishResponse: Sent, OtherErr(String).
PublishResponse(variant, msg) == [variant |-> variant, msg |-> msg]

PublishResponses == {PublishResponse("Sent", "")} \cup {PublishResponse("OtherErr", e) : e \in ServerMsgs}

\* The response values of an endpoint of the daemon, for a request of an
\* operation.
ResponseValues(ep, op, req) ==
    IF ep = "Ping" THEN PingEchoes
    ELSE IF ep = "GetSchemas"
    THEN (IF op \in StreamOps THEN TopicReplies(req)
          ELSE IF op \in TopicOps THEN TopicOpReplies
          ELSE SchemaReplies)
    ELSE IF ep = "GetTopics" THEN TopicHistories
    ELSE IF ep = "Publish" THEN PublishResponses
    ELSE IF ep = "Proxy" THEN ProxyResponses(req)
    ELSE IF ep = "StartStream" THEN StartReplies(req.serial)
    ELSE {<<1>>}

\* ------------------------------------------------------------------------
\* State
\* ------------------------------------------------------------------------

VARIABLES
    \* --- TcpCommsTx / TcpCommsRx and the socket between them
    txlog,      \* the payloads passed to send_inner, in call order
    writes,     \* the buffer of every write_all call, in call order
    wire,       \* bytes written by the peer and not yet read
    link,       \* the socket: "open", "eof" (peer closed) or "reset" (I/O error)
    buf,        \* TcpCommsRx::buf, the accumulator
    rxlog,      \* what the receive calls returned, in order
    rxClosed,   \* receive returned ConnError: the reader stops
    since,      \* history: the bytes read since the last RxOverflow
    ovfPos,     \* history: how many wire bytes had been read at the last RxOverflow (-1: none)
    midFrame,   \* history: some socket read ended in the middle of a frame
    \* --- connect_insecure / connect_with_ca_pem
    connPc,     \* "start", "pinging", "done"
    transport,  \* "none", "insecure" (plain TCP on loopback) or "tls"
    nodelay,    \* the value passed to set_nodelay: "unset", "on" or "off"
    connResult, \* "none", "Ok" (a PoststationClient was returned) or a ConnectError
    \* --- the HostClient shared by all handles (postcard-rpc)
    pending,    \* the pending-request table: sequence number -> waiting task
    nextSeq,    \* the next sequence number to allocate
    muxClosed,  \* the reader has terminated: the connection is closed
    inbox,      \* per task: the outcome of its send_resp, not yet taken up
    \* --- the callers of PoststationClient
    pc,         \* per caller: "idle", "schema", "proxy", "devices", "done"
    args,       \* per caller: the operation and its arguments
    found,      \* per caller: the endpoint or topic report the lookup selected
    result,     \* per caller: what the operation returned
    trace,      \* history, per task: every send_resp request and its outcome
    \* --- subscriptions and stream listeners
    subs,       \* per caller: its MultiSubscription: registered, queue, lag counter
    streamId,   \* per caller: the stream_id of its listener (0: no listener)
    topicLog,   \* history: the stream frames the reader fanned out, in wire order
    subAt,      \* history, per caller: how many frames had been fanned out when it subscribed
    consumed,   \* history, per caller: what sub.recv() returned to its listener
    yielded,    \* history, per caller: what the listener's recv returned
    \* --- the frames between the HostClient and the daemon
    reqCount,   \* history: how many requests the callers have handed to the writer
    atDaemon,   \* the requests the daemon has read and not yet answered
    net,        \* the response frames the daemon has sent and the reader has not yet read
    lastRead,   \* history: the frame the reader read last and what it did with it
    outq,       \* the writer queue: the requests handed to the writer and not yet taken
    writing     \* the bytes of the write_all in progress that are not yet on the socket

framerVars == <<txlog, writes, wire, link, buf, rxlog, rxClosed, since, ovfPos, midFrame>>

connVars == <<connPc, transport, nodelay, connResult>>

muxVars == <<pending, nextSeq, muxClosed, inbox>>

callVars == <<pc, args, found, result>>

streamVars == <<subs, streamId, topicLog, subAt, consumed, yielded>>

wireVars == <<reqCount, atDaemon, net, lastRead>>

txVars == <<outq, writing>>

rpcVars == <<connPc, transport, nodelay, connResult, pending, nextSeq, muxClosed, inbox,
             pc, args, found, result, trace, subs, streamId, topicLog, subAt, consumed, yielded,
          reqCount, atDaemon, net, lastRead, outq, writing>>

vars == <<txlog, writes, wire, link, buf, rxlog, rxClosed, since, ovfPos, midFrame,
          connPc, transport, nodelay, connResult, pending, nextSeq, muxClosed, inbox,
          pc, args, found, result, trace, subs, streamId, topicLog, subAt, consumed, yielded,
          reqCount, atDaemon, net, lastRead, outq, writing>>

\* ------------------------------------------------------------------------
\* The HostClient: pending-request table and reader
\* ------------------------------------------------------------------------

\* A MultiSubscription: whether it is registered in the fanout table, its
\* queue of unread messages and its lag counter.
Sub(live, queue, lag) == [live |-> live, queue |-> queue, lag |-> lag]

NoSub == Sub(FALSE, <<>>, 0)

\* A delivery slot of the pending-request table: the sequence number, the
\* task that waits, and the endpoint whose response key is expected.
Slot(seq, t, ep) == [seq |-> seq, task |-> t, ep |-> ep]

\* What the reader did with a frame: how is "fulfil" or "discard", frame the
\* frame, req the request of the slot it fulfilled.
Read(how, frame, req) == [how |-> how, frame |-> frame, req |-> req]

\* A response frame: the sequence number and key of its header, and the
\* request the daemon answered with it.
Frame(seq, key, of) == [seq |-> seq, key |-> key, of |-> of]

NoRead == Read("none", Frame(0, "", 0), 0)

\* One send_resp call of the history.
Sent(ep, req, res) == [ep |-> ep, req |-> req, res |-> res]

\* The request a pending slot waits on: the last one its task sent.
RequestOf(slot) == Last(trace[slot.task]).req

\* The operation a pending slot belongs to.
OpOf(slot) == IF slot.task \in Callers THEN args[slot.task].op ELSE "connect"

SetLastRes(tr, res) == [tr EXCEPT ![Len(tr)].res = res]

Closed == Outcome("err", NoVal, HostErr("Closed", ""))

\* The number of sequence values: 2^32 for VarSeqKind::Seq4, scaled.
SeqMod == 3

\* The sequence values of the slots of a pending table.
SeqsOf(pend) == {sl.seq : sl \in pend}

\* A plausible slip: the counter value is taken as it is.
AllocSeqUnchecked(next, pend) == next

\* The sequence number of a new request: the counter value, or the first
\* value after it, wrapping, that no pending slot holds.
AllocSeq(next, pend) ==
    LET free(k) == ((next + k) % SeqMod) \notin SeqsOf(pend)
        k == CHOOSE i \in 0..(SeqMod - 1) : free(i) /\ \A j \in 0..(i - 1) : ~free(j)
    IN (next + k) % SeqMod

\* send_resp::<ep>(req) called by task t, up to its await: on a closed
\* connection it fails at once; otherwise a sequence number is allocated, a
\* delivery slot inserted and the request handed to the writer.
SendResp(t, ep, req) ==
    IF muxClosed
    THEN /\ inbox' = [inbox EXCEPT ![t] = Closed]
         /\ trace' = [trace EXCEPT ![t] = Append(@, Sent(ep, req, Closed))]
         /\ UNCHANGED <<pending, nextSeq>>
    ELSE /\ pending' = pending \cup {Slot(AllocSeq(nextSeq, pending), t, ep)}
         /\ nextSeq' = (AllocSeq(nextSeq, pending) + 1) % SeqMod
         /\ inbox' = [inbox EXCEPT ![t] = NoOutcome]
         /\ trace' = [trace EXCEPT ![t] = Append(@, Sent(ep, req, NoOutcome))]

\* Task t has taken up the outcome of its send_resp and sends nothing more.
NoSend(t) ==
    /\ inbox' = [inbox EXCEPT ![t] = NoOutcome]
    /\ UNCHANGED <<pending, nextSeq, trace>>

\* The reader fulfils a slot: the slot is removed and its task resumed with
\* the outcome; every other slot stays as it is.
Fulfil(slot, outcome) ==
    /\ pending' = pending \ {slot}
    /\ inbox' = [inbox EXCEPT ![slot.task] = outcome]
    /\ trace' = [trace EXCEPT ![slot.task] = SetLastRes(@, outcome)]
    /\ UNCHANGED <<nextSeq, muxClosed>>

\* A frame with the slot's sequence number and its response key arrives and
\* deserializes to v.
ReaderResponse(slot, v) ==
    /\ ~muxClosed
    /\ slot \in pending
    /\ v \in ResponseValues(slot.ep, OpOf(slot), RequestOf(slot))
    /\ Fulfil(slot, Outcome("ok", v, NoHostErr))
    /\ UNCHANGED <<connVars, callVars, framerVars, streamVars, wireVars, txVars>>

\* A frame with the slot's sequence number and its response key arrives and
\* does not deserialize.
ReaderGarbled(slot) ==
    /\ ~muxClosed
    /\ slot \in pending
    /\ Fulfil(slot, Outcome("err", NoVal, HostErr("Postcard", "")))
    /\ UNCHANGED <<connVars, callVars, framerVars, streamVars, wireVars, txVars>>

\* A frame with the slot's sequence number and the wire-error key arrives.
ReaderWireError(slot, w) ==
    /\ ~muxClosed
    /\ slot \in pending
    /\ Fulfil(slot, Outcome("err", NoVal, HostErr("Wire", w)))
    /\ UNCHANGED <<connVars, callVars, framerVars, streamVars, wireVars, txVars>>

\* The reader sees end-of-stream or an I/O error: every pending slot fails
\* with Closed and the connection stays closed.
ConnDrop ==
    /\ ~muxClosed
    /\ muxClosed' = TRUE
    /\ pending' = {}
    /\ inbox' = [t \in Tasks |->
                    IF \E sl \in pending : sl.task = t THEN Closed ELSE inbox[t]]
    /\ trace' = [t \in Tasks |->
                    IF \E sl \in pending : sl.task = t THEN SetLastRes(trace[t], Closed)
                    ELSE trace[t]]
    /\ UNCHANGED <<nextSeq, connVars, callVars, framerVars, streamVars, wireVars, txVars>>

\* ------------------------------------------------------------------------
\* connect_insecure and connect_with_ca_pem
\* ------------------------------------------------------------------------

\* Where establishing the pipe may fail, per transport: the CA certificate,
\* the TCP connect, a socket option or address query, the TLS handshake.
ConnectFailures(tr) ==
    IF tr = "insecure" THEN {"none", "tcp", "socket"}
    ELSE {"none", "cert", "tcp", "socket", "tls"}

\* The ConnectError of a failure before the handshake.
ConnectErrorOf(fail) == IF fail = "cert" THEN "CaCertificate" ELSE "Connection"

\* A plausible slip: the two settings are exchanged.
NodelayOfSwapped(tr) == IF tr = "insecure" THEN "off" ELSE "on"

\* `set_nodelay(true)` of connect_insecure, `set_nodelay(false)` of
\* connect_with_ca_pem.
NodelayOf(tr) == IF tr = "insecure" THEN "on" ELSE "off"

\* connect_insecure(port) / connect_with_ca_pem(addr, ca_path) up to the
\* await of the ping: the pipe is established, the HostClient built and
\* `send_resp::<PingEndpoint>(&42)` issued; or establishing the pipe fails.
Connect(tr, fail) ==
    /\ connPc = "start"
    /\ fail \in ConnectFailures(tr)
    /\ transport' = tr
    /\ IF fail = "none"
       THEN /\ nodelay' = NodelayOf(tr)
            /\ connPc' = "pinging"
            /\ connResult' = connResult
            /\ SendResp("conn", "Ping", PingToken)
       ELSE /\ nodelay' = IF fail \in {"cert", "tcp"} THEN nodelay ELSE NodelayOf(tr)
            /\ connPc' = "done"
            /\ connResult' = ConnectErrorOf(fail)
            /\ UNCHANGED <<pending, nextSeq, inbox, trace>>
    /\ UNCHANGED <<muxClosed, callVars, framerVars, streamVars, wireVars, txVars>>

\* A plausible slip: the echoed token is not compared.
PingGateUnchecked(res) == IF res.st = "err" THEN "Protocol" ELSE "Ok"

\* `.map_err(|_| ConnectError::Protocol)?` and `if res != 42`.
PingGate(res) ==
    IF res.st = "err" THEN "Protocol"
    ELSE IF res.val # PingToken THEN "Protocol"
    ELSE "Ok"

\* The connect call resumes with the outcome of the ping and returns.
ConnectReturn ==
    /\ connPc = "pinging"
    /\ inbox["conn"].st # "none"
    /\ connResult' = PingGate(inbox["conn"])
    /\ connPc' = "done"
    /\ NoSend("conn")
    /\ UNCHANGED <<transport, nodelay, muxClosed, callVars, framerVars, streamVars, wireVars, txVars>>

\* ------------------------------------------------------------------------
\* PoststationClient: get_devices, proxy_endpoint, proxy_endpoint_json
\* ------------------------------------------------------------------------

\* The arguments of a call.  ep is the endpoint type E of a typed call, path
\* the path of a dynamic call.
Args(op, serial, ep, path, seq_no, body) ==
    [op |-> op, serial |-> serial, ep |-> ep, path |-> path, seq_no |-> seq_no, body |-> body]

NoArgs == Args("none", 0, NoEndpoint, "", 0, NoVal)

\* The calls a caller may make: c1 the endpoint calls, c2 get_devices.
CallsOf(c) ==
    IF c = "c1"
    THEN UNION {{Args("proxy_endpoint", sn, E, E.path, q, b) :
                    sn \in Serials, q \in SeqNos, b \in TypedBodies(E)} : E \in TypedEndpoints}
           \cup {Args("proxy_endpoint_json", sn, NoEndpoint, p, q, b) :
                    sn \in Serials, p \in Paths, q \in SeqNos, b \in JsonValues}
    ELSE {Args("get_devices", 0, NoEndpoint, "", 0, NoVal)}

\* `.iter().find(pred)`, given for each element whether pred holds of it: the
\* index of the first element satisfying pred, 0 when there is none.
FindFirst(hits) ==
    IF \E i \in 1..Len(hits) : hits[i]
    THEN CHOOSE i \in 1..Len(hits) : hits[i] /\ \A j \in 1..(i - 1) : ~hits[j]
    ELSE 0

\* A plausible slip: the response key is not compared.
FindTypedNoRespKey(endpoints, E) ==
    LET pred(e) == e.path = E.path /\ e.req_key = E.req_key
    IN FindFirst([i \in 1..Len(endpoints) |-> pred(endpoints[i])])

\* proxy_endpoint: `e.path.as_str() == E::PATH && e.req_key == E::REQ_KEY &&
\* e.resp_key == E::RESP_KEY`
FindTyped(endpoints, E) ==
    LET pred(e) == e.path = E.path /\ e.req_key = E.req_key /\ e.resp_key = E.resp_key
    IN FindFirst([i \in 1..Len(endpoints) |-> pred(endpoints[i])])

\* proxy_endpoint_json: `e.path.as_str() == path`
FindByPath(endpoints, path) ==
    LET pred(e) == e.path = path
    IN FindFirst([i \in 1..Len(endpoints) |-> pred(endpoints[i])])

\* What a step of an operation decides: to return result, or to send req
\* (a ProxyRequest built from the endpoint report sel).
Return(r) == [send |-> FALSE, result |-> r, sel |-> NoEndpoint, req |-> NoVal]

Send(sel, req) == [send |-> TRUE, result |-> NoResult, sel |-> sel, req |-> req]

\* proxy_endpoint from the return of get_device_schemas to the ProxyRequest.
TypedAfterSchema(a, res) ==
    IF res.st = "err" THEN Return(FromHostErr(res.err))
    ELSE IF ~res.val.some THEN Return(Server("endpoint not found"))
    ELSE LET i == FindTyped(res.val.endpoints, a.ep)
         IN IF i = 0 THEN Return(Server("endpoint not found"))
            ELSE LET schema == res.val.endpoints[i]
                     body == to_stdvec(a.body)
                 IN IF ~body.ok THEN Return(ClientError("Encoding"))
                    ELSE Send(schema, ProxyRequest(a.serial, schema.path, schema.req_key,
                                                   schema.resp_key, a.seq_no, body.bytes))

\* A plausible slip: a value that does not match the schema is sent as it is.
DynEncodeUnchecked(schema, body) == Coded(TRUE, <<body.v % 256>>, NoVal)

\* proxy_endpoint_json: `postcard_dyn::to_stdvec_dyn(&schema.req_ty, &body)`
DynEncode(schema, body) == to_stdvec_dyn(schema.req_ty, body)

\* proxy_endpoint_json from the return of get_device_schemas to the
\* ProxyRequest: `let Ok(Some(schemas)) = ... else`.
JsonAfterSchema(a, res) ==
    IF res.st = "err" \/ ~res.val.some THEN Return(Server("endpoint not found"))
    ELSE LET i == FindByPath(res.val.endpoints, a.path)
         IN IF i = 0 THEN Return(Server("endpoint not found"))
            ELSE LET schema == res.val.endpoints[i]
                     body == DynEncode(schema, a.body)
                 IN IF ~body.ok
                    THEN Return(Dynamic("provided JSON does not match the expected schema for this endpoint", ""))
                    ELSE Send(schema, ProxyRequest(a.serial, schema.path, schema.req_key,
                                                   schema.resp_key, a.seq_no, body.bytes))

\* A plausible slip: the arms of the match on ProxyResponse are mixed up, an
\* OtherErr reported with the WireErr text.
ProxyErrorSwapped(resp) ==
    IF resp.variant = "WireErr" THEN Remote("Other Server Err: ", resp.werr)
    ELSE Remote("WireErr: ", resp.msg)

\* The error arms of the match on ProxyResponse:
\* `Remote(format!("WireErr: {body:?}"))`, `Remote(format!("Other Server Err: '{e}'"))`.
ProxyError(resp) ==
    IF resp.variant = "WireErr" THEN Remote("WireErr: ", resp.werr)
    ELSE Remote("Other Server Err: ", resp.msg)

\* A plausible slip: a reply whose seq_no is not the caller's is refused.
TypedAfterProxyChecked(a, res) ==
    IF res.st = "err" THEN FromHostErr(res.err)
    ELSE IF res.val.variant # "Ok" THEN ProxyError(res.val)
    ELSE IF res.val.seq_no # a.seq_no THEN ClientError("Protocol")
    ELSE LET resp == from_bytes(a.ep.resp_ty, res.val.body)
         IN IF resp.ok THEN ResOk(resp.val) ELSE ClientError("Encoding")

\* proxy_endpoint from the return of send_resp::<ProxyEndpoint> on.
TypedAfterProxy(a, res) ==
    IF res.st = "err" THEN FromHostErr(res.err)
    ELSE IF res.val.variant # "Ok" THEN ProxyError(res.val)
    ELSE LET resp == from_bytes(a.ep.resp_ty, res.val.body)
         IN IF resp.ok THEN ResOk(resp.val) ELSE ClientError("Encoding")

\* proxy_endpoint_json from the return of send_resp::<ProxyEndpoint> on.
JsonAfterProxy(a, schema, res) ==
    IF res.st = "err" THEN FromHostErr(res.err)
    ELSE IF res.val.variant # "Ok" THEN ProxyError(res.val)
    ELSE LET resp == from_slice_dyn(schema.resp_ty, res.val.body)
         IN IF resp.ok THEN ResOk(resp.val) ELSE Dynamic("Decode error: ", "DeserializeUnexpectedEnd")

\* A caller holding the client handle starts a call: get_devices sends its
\* request, the endpoint calls first call get_device_schemas(serial).
Call(c, a) ==
    /\ connResult = "Ok"
    /\ pc[c] = "idle"
    /\ a \in CallsOf(c)
    /\ args' = [args EXCEPT ![c] = a]
    /\ IF a.op = "get_devices"
       THEN /\ pc' = [pc EXCEPT ![c] = "devices"]
            /\ SendResp(c, "GetDevices", 0)
       ELSE /\ pc' = [pc EXCEPT ![c] = "schema"]
            /\ SendResp(c, "GetSchemas", a.serial)
    /\ UNCHANGED <<found, result, muxClosed, connVars, framerVars, streamVars, wireVars, txVars>>

\* get_devices returns: `Ok(self.client.send_resp::<GetDevicesEndpoint>(&()).await?)`
DevicesReturn(c) ==
    /\ pc[c] = "devices"
    /\ inbox[c].st # "none"
    /\ result' = [result EXCEPT ![c] =
                     IF inbox[c].st = "err" THEN FromHostErr(inbox[c].err)
                     ELSE Res("Ok", NoVal, "devices", "")]
    /\ pc' = [pc EXCEPT ![c] = "done"]
    /\ NoSend(c)
    /\ UNCHANGED <<args, found, muxClosed, connVars, framerVars, streamVars, wireVars, txVars>>

\* An endpoint call resumes with the schema report: it returns an error, or
\* sends the ProxyRequest.
SchemaReturn(c) ==
    /\ pc[c] = "schema"
    /\ inbox[c].st # "none"
    /\ LET step == IF args[c].op = "proxy_endpoint" THEN TypedAfterSchema(args[c], inbox[c])
                   ELSE JsonAfterSchema(args[c], inbox[c])
       IN IF step.send
          THEN /\ found' = [found EXCEPT ![c] = step.sel]
               /\ pc' = [pc EXCEPT ![c] = "proxy"]
               /\ result' = result
               /\ SendResp(c, "Proxy", step.req)
          ELSE /\ found' = found
               /\ pc' = [pc EXCEPT ![c] = "done"]
               /\ result' = [result EXCEPT ![c] = step.result]
               /\ NoSend(c)
    /\ UNCHANGED <<args, muxClosed, connVars, framerVars, streamVars, wireVars, txVars>>

\* An endpoint call resumes with the outcome of the ProxyRequest and returns.
ProxyReturn(c) ==
    /\ pc[c] = "proxy"
    /\ inbox[c].st # "none"
    /\ result' = [result EXCEPT ![c] =
                     IF args[c].op = "proxy_endpoint" THEN TypedAfterProxy(args[c], inbox[c])
                     ELSE JsonAfterProxy(args[c], found[c], inbox[c])]
    /\ pc' = [pc EXCEPT ![c] = "done"]
    /\ NoSend(c)
    /\ UNCHANGED <<args, found, muxClosed, connVars, framerVars, streamVars, wireVars, txVars>>

\* ------------------------------------------------------------------------
\* Initial state and the specification of the RPC layer
\* ------------------------------------------------------------------------

RpcIdle ==
    /\ connPc = "start"
    /\ transport = "none"
    /\ nodelay = "unset"
    /\ connResult = "none"
    /\ pending = {}
    /\ nextSeq = 0
    /\ muxClosed = FALSE
    /\ inbox = [t \in Tasks |-> NoOutcome]
    /\ pc = [c \in Callers |-> "idle"]
    /\ args = [c \in Callers |-> NoArgs]
    /\ found = [c \in Callers |-> NoEndpoint]
    /\ result = [c \in Callers |-> NoResult]
    /\ trace = [t \in Tasks |-> <<>>]
    /\ subs = [c \in Callers |-> NoSub]
    /\ streamId = [c \in Callers |-> 0]
    /\ topicLog = <<>>
    /\ subAt = [c \in Callers |-> 0]
    /\ consumed = [c \in Callers |-> <<>>]
    /\ yielded = [c \in Callers |-> <<>>]
    /\ reqCount = 0
    /\ atDaemon = {}
    /\ net = {}
    /\ lastRead = NoRead
    /\ outq = <<>>
    /\ writing = <<>>

FramerIdle ==
    /\ txlog = <<>>
    /\ writes = <<>>
    /\ wire = <<>>
    /\ link = "open"
    /\ buf = <<>>
    /\ rxlog = <<>>
    /\ rxClosed = FALSE
    /\ since = <<>>
    /\ ovfPos = -1
    /\ midFrame = FALSE

Init == RpcIdle /\ FramerIdle

Reader ==
    \/ \E slot \in pending : \E v \in ResponseValues(slot.ep, OpOf(slot), RequestOf(slot)) : ReaderResponse(slot, v)
    \/ \E slot \in pending : ReaderGarbled(slot)
    \/ \E slot \in pending : \E w \in WireErrors : ReaderWireError(slot, w)
    \/ ConnDrop

Next ==
    \/ \E tr \in {"insecure", "tls"} : \E fail \in ConnectFailures(tr) : Connect(tr, fail)
    \/ ConnectReturn
    \/ \E c \in Callers : \E a \in CallsOf(c) : Call(c, a)
    \/ \E c \in Callers : DevicesReturn(c)
    \/ \E c \in Callers : SchemaReturn(c)
    \/ \E c \in Callers : ProxyReturn(c)
    \/ Reader

Spec == Init /\ [][Next]_vars

\* ------------------------------------------------------------------------
\* Streams: stream_topic, stream_topic_json and the listeners' recv
\* ------------------------------------------------------------------------

\* The depth passed to subscribe_multi, 64 in the program, scaled.
SubDepth == 2

\* The stream frames the daemon emits, each at most once in a run: one of
\* each stream that decodes, and one that is too short to decode.
StreamFrames ==
    {TopicStreamMsg(id, <<1>>) : id \in StreamIds} \cup {TopicStreamMsg(1, <<>>)}

\* The stream calls a caller may make: c1 typed or dynamic, c2 dynamic.
StreamCallsOf(c) ==
    IF c = "c1"
    THEN {Args("stream_topic", 1, T, T.path, 0, NoVal) : T \in TypedTopics}
           \cup {Args("stream_topic_json", 1, NoEndpoint, p, 0, NoVal) : p \in TopicPaths}
    ELSE {Args("stream_topic_json", 2, NoEndpoint, "tp/a", 0, NoVal)}

\* stream_topic: `e.path.as_str() == T::PATH && e.key == T::TOPIC_KEY`
FindTopicTyped(topics_out, T) ==
    LET pred(e) == e.path = T.path /\ e.key = T.key
    IN FindFirst([i \in 1..Len(topics_out) |-> pred(topics_out[i])])

\* stream_topic_json: `e.path.as_str() == path`
FindTopicByPath(topics_out, path) ==
    LET pred(e) == e.path = path
    IN FindFirst([i \in 1..Len(topics_out) |-> pred(topics_out[i])])

\* stream_topic / stream_topic_json from the return of get_device_schemas to
\* the lookup of the topic: `let Ok(Some(schemas)) = ... else` and `let
\* Some(schema) = res else`.  0 stands for Server("topic not found").
TopicLookup(a, res) ==
    IF res.st = "err" THEN 0
    ELSE IF ~res.val.some THEN 0
    ELSE IF a.op = "stream_topic" THEN FindTopicTyped(res.val.topics_out, a.ep)
    ELSE FindTopicByPath(res.val.topics_out, a.path)

\* The arms of the match on TopicStreamResult that return an error.
StartError(reply) ==
    IF reply.variant = "DeviceDisconnected" THEN Server("Device Disconnected")
    ELSE IF reply.variant = "NoDeviceKnown" THEN Server("No Device Known")
    ELSE Server("No Such Topic")

\* A plausible slip: recv takes the newest message of the queue.
SubRecvNewestFirst(sub, closed) ==
    IF sub.lag > 0
    THEN [kind |-> "Lagged", n |-> sub.lag, msg |-> TopicStreamMsg(0, <<>>),
          sub |-> Sub(sub.live, sub.queue, 0)]
    ELSE IF sub.queue # <<>>
    THEN [kind |-> "Ok", n |-> 0, msg |-> sub.queue[Len(sub.queue)],
          sub |-> Sub(sub.live, SubSeq(sub.queue, 1, Len(sub.queue) - 1), 0)]
    ELSE IF closed
    THEN [kind |-> "IoClosed", n |-> 0, msg |-> TopicStreamMsg(0, <<>>), sub |-> sub]
    ELSE [kind |-> "Pending", n |-> 0, msg |-> TopicStreamMsg(0, <<>>), sub |-> sub]

\* What sub.recv() gives for a subscription: the lag report first, then the
\* next queued message, IoClosed on a closed connection with an empty queue,
\* and otherwise nothing yet.
SubRecv(sub, closed) ==
    IF sub.lag > 0
    THEN [kind |-> "Lagged", n |-> sub.lag, msg |-> TopicStreamMsg(0, <<>>),
          sub |-> Sub(sub.live, sub.queue, 0)]
    ELSE IF sub.queue # <<>>
    THEN [kind |-> "Ok", n |-> 0, msg |-> Head(sub.queue),
          sub |-> Sub(sub.live, Tail(sub.queue), 0)]
    ELSE IF closed
    THEN [kind |-> "IoClosed", n |-> 0, msg |-> TopicStreamMsg(0, <<>>), sub |-> sub]
    ELSE [kind |-> "Pending", n |-> 0, msg |-> TopicStreamMsg(0, <<>>), sub |-> sub]

\* A plausible slip: a full queue keeps what it holds and drops the message
\* that arrives.
EnqueueDropNewest(sub, m) ==
    IF ~sub.live THEN sub
    ELSE IF Len(sub.queue) < SubDepth THEN Sub(TRUE, Append(sub.queue, m), sub.lag)
    ELSE Sub(TRUE, sub.queue, sub.lag + 1)

\* The reader enqueues a topic message for one subscription: a full queue
\* counts a lag and drops its oldest message.
Enqueue(sub, m) ==
    IF ~sub.live THEN sub
    ELSE IF Len(sub.queue) < SubDepth THEN Sub(TRUE, Append(sub.queue, m), sub.lag)
    ELSE Sub(TRUE, Append(Tail(sub.queue), m), sub.lag + 1)

\* A plausible slip: the reader waits for room, so that a message reaches no
\* subscription while one of them is full.
FanoutBlocking(ss, m) ==
    IF \E c \in Callers : ss[c].live /\ Len(ss[c].queue) >= SubDepth THEN ss
    ELSE [c \in Callers |-> Enqueue(ss[c], m)]

\* The reader hands a topic message to every subscription, each on its own.
Fanout(ss, m) == [c \in Callers |-> Enqueue(ss[c], m)]

\* What one call of a listener's recv returned: Some(val), taken from a frame
\* with stream_id id, or None.
Yield(some, val, id) == [some |-> some, val |-> val, id |-> id]

\* A plausible slip: the stream id of a frame is not compared.
SameStreamUnchecked(stream_id, own) == TRUE

\* `if stream_id != self.stream_id { continue; }`
SameStream(stream_id, own) == stream_id = own

\* StreamListener::recv: `postcard::from_bytes(&msg)`; JsonStreamListener::recv:
\* `postcard_dyn::from_slice_dyn(&self.schema.ty, &msg)`.
StreamDecode(a, schema, msg) ==
    IF a.op = "stream_topic" THEN from_bytes(a.ep.ty, msg)
    ELSE from_slice_dyn(schema.ty, msg)

\* A plausible slip: a lag report ends the stream.
RecvTurnLagEnds(a, schema, own, r) ==
    IF r.kind \in {"IoClosed", "Lagged"} THEN [next |-> "return", yield |-> Yield(FALSE, NoVal, 0)]
    ELSE IF ~SameStream(r.msg.stream_id, own)
    THEN [next |-> "continue", yield |-> Yield(FALSE, NoVal, 0)]
    ELSE LET msg == StreamDecode(a, schema, r.msg.msg)
         IN IF ~msg.ok THEN [next |-> "continue", yield |-> Yield(FALSE, NoVal, 0)]
            ELSE [next |-> "return", yield |-> Yield(TRUE, msg.val, r.msg.stream_id)]

\* One turn of the loop of recv on what sub.recv() gave: "continue", or
\* "return" with the value returned.
RecvTurn(a, schema, own, r) ==
    IF r.kind = "IoClosed" THEN [next |-> "return", yield |-> Yield(FALSE, NoVal, 0)]
    ELSE IF r.kind = "Lagged" THEN [next |-> "continue", yield |-> Yield(FALSE, NoVal, 0)]
    ELSE IF ~SameStream(r.msg.stream_id, own)
    THEN [next |-> "continue", yield |-> Yield(FALSE, NoVal, 0)]
    ELSE LET msg == StreamDecode(a, schema, r.msg.msg)
         IN IF ~msg.ok THEN [next |-> "continue", yield |-> Yield(FALSE, NoVal, 0)]
            ELSE [next |-> "return", yield |-> Yield(TRUE, msg.val, r.msg.stream_id)]

\* stream_topic / stream_topic_json called with the client handle: the call
\* first calls get_device_schemas(serial).
StreamCall(c, a) ==
    /\ connResult = "Ok"
    /\ pc[c] = "idle"
    /\ a \in StreamCallsOf(c)
    /\ args' = [args EXCEPT ![c] = a]
    /\ pc' = [pc EXCEPT ![c] = "topics"]
    /\ SendResp(c, "GetSchemas", a.serial)
    /\ UNCHANGED <<found, result, muxClosed, connVars, framerVars, streamVars, wireVars, txVars>>

\* A plausible slip: the subscription is left for after the start of the
\* stream.
subscribe_later(sub) == sub

\* `self.client.subscribe_multi::<SubscribeTopic>(64).await`: a new, empty
\* subscription is registered in the fanout table.
subscribe_multi(sub) == Sub(TRUE, <<>>, 0)

\* The stream call resumes with the schema report, looks the topic up and
\* calls subscribe_multi::<SubscribeTopic>(64), which registers the
\* subscription, or fails on a closed connection.
StreamSubscribe(c) ==
    /\ pc[c] = "topics"
    /\ inbox[c].st # "none"
    /\ LET i == TopicLookup(args[c], inbox[c])
       IN IF i = 0
          THEN /\ result' = [result EXCEPT ![c] = Server("topic not found")]
               /\ pc' = [pc EXCEPT ![c] = "done"]
               /\ UNCHANGED <<found, subs, subAt>>
          ELSE IF muxClosed
          THEN /\ result' = [result EXCEPT ![c] = ClientError("ConnectionClosed")]
               /\ pc' = [pc EXCEPT ![c] = "done"]
               /\ UNCHANGED <<found, subs, subAt>>
          ELSE /\ found' = [found EXCEPT ![c] = inbox[c].val.topics_out[i]]
               /\ subs' = [subs EXCEPT ![c] = subscribe_multi(@)]
               /\ subAt' = [subAt EXCEPT ![c] = Len(topicLog)]
               /\ pc' = [pc EXCEPT ![c] = "subscribed"]
               /\ result' = result
    /\ NoSend(c)
    /\ UNCHANGED <<args, muxClosed, connVars, framerVars, streamId, topicLog, consumed, yielded, wireVars, txVars>>

\* With the subscription in hand the call issues
\* `send_resp::<StartStreamEndpoint>(&TopicStreamRequest { serial, path, key: schema.key })`.
StreamStart(c) ==
    /\ pc[c] = "subscribed"
    /\ pc' = [pc EXCEPT ![c] = "starting"]
    /\ SendResp(c, "StartStream", TopicStreamRequest(args[c].serial, args[c].path, found[c].key))
    /\ UNCHANGED <<args, found, result, muxClosed, connVars, framerVars, streamVars, wireVars, txVars>>

\* A plausible slip: every reply of the daemon is taken for Started.
IsStartedAnyReply(res) == res.st = "ok"

\* `match res? { TopicStreamResult::Started(id) => id, .. }`: the one path
\* to `Ok(StreamListener { .. })`.
IsStarted(res) == res.st = "ok" /\ res.val.variant = "Started"

\* The call resumes with the outcome of StartStream: Started(id) returns the
\* listener; anything else returns an error and drops the subscription.
StreamStartReturn(c) ==
    /\ pc[c] = "starting"
    /\ inbox[c].st # "none"
    /\ IF IsStarted(inbox[c])
       THEN /\ streamId' = [streamId EXCEPT ![c] = inbox[c].val.id]
            /\ result' = [result EXCEPT ![c] = Res("Ok", NoVal, "listener", "")]
            /\ pc' = [pc EXCEPT ![c] = "listening"]
            /\ subs' = subs
       ELSE /\ result' = [result EXCEPT ![c] =
                             IF inbox[c].st = "err" THEN FromHostErr(inbox[c].err)
                             ELSE StartError(inbox[c].val)]
            /\ pc' = [pc EXCEPT ![c] = "done"]
            /\ subs' = [subs EXCEPT ![c] = NoSub]
            /\ streamId' = streamId
    /\ NoSend(c)
    /\ UNCHANGED <<args, found, muxClosed, connVars, framerVars, topicLog, subAt, consumed, yielded, wireVars, txVars>>

\* A frame on the SubscribeTopic key arrives while a subscription is
\* registered: the reader hands the message to every registered subscription.
StreamFrame(m) ==
    /\ ~muxClosed
    /\ \E c \in Callers : subs[c].live
    /\ \A i \in 1..Len(topicLog) : topicLog[i] # m
    /\ topicLog' = Append(topicLog, m)
    /\ subs' = Fanout(subs, m)
    /\ UNCHANGED <<streamId, subAt, consumed, yielded, muxVars, trace, connVars, callVars, framerVars, wireVars, txVars>>

\* One turn of the loop of StreamListener::recv / JsonStreamListener::recv:
\* sub.recv() completes and the listener continues or returns.  The owner
\* calls recv again until it returns None.
Recv(c) ==
    /\ pc[c] = "listening"
    /\ LET r == SubRecv(subs[c], muxClosed)
           turn == RecvTurn(args[c], found[c], streamId[c], r)
       IN /\ r.kind # "Pending"
          /\ subs' = [subs EXCEPT ![c] = r.sub]
          /\ consumed' = [consumed EXCEPT ![c] = Append(@, [kind |-> r.kind, n |-> r.n, msg |-> r.msg])]
          /\ yielded' = [yielded EXCEPT ![c] =
                            IF turn.next = "return" THEN Append(@, turn.yield) ELSE @]
          /\ pc' = [pc EXCEPT ![c] =
                       IF turn.next = "return" /\ ~turn.yield.some THEN "ended" ELSE @]
    /\ UNCHANGED <<streamId, topicLog, subAt, args, found, result, muxVars, trace, connVars, framerVars, wireVars, txVars>>

\* A connected client: connect_insecure has returned Ok(client) after its
\* ping was echoed.
Connected ==
    /\ connPc = "done"
    /\ transport = "insecure"
    /\ nodelay = NodelayOf("insecure")
    /\ connResult = "Ok"
    /\ pending = {}
    /\ nextSeq = 1
    /\ muxClosed = FALSE
    /\ inbox = [t \in Tasks |-> NoOutcome]
    /\ pc = [c \in Callers |-> "idle"]
    /\ args = [c \in Callers |-> NoArgs]
    /\ found = [c \in Callers |-> NoEndpoint]
    /\ result = [c \in Callers |-> NoResult]
    /\ trace = [t \in Tasks |->
                   IF t = "conn"
                   THEN <<Sent("Ping", PingToken, Outcome("ok", PingToken, NoHostErr))>>
                   ELSE <<>>]
    /\ subs = [c \in Callers |-> NoSub]
    /\ streamId = [c \in Callers |-> 0]
    /\ topicLog = <<>>
    /\ subAt = [c \in Callers |-> 0]
    /\ consumed = [c \in Callers |-> <<>>]
    /\ yielded = [c \in Callers |-> <<>>]
    /\ reqCount = 0
    /\ atDaemon = {}
    /\ net = {}
    /\ lastRead = NoRead
    /\ outq = <<>>
    /\ writing = <<>>

StreamInit == Connected /\ FramerIdle

StreamNext ==
    \/ \E c \in Callers : \E a \in StreamCallsOf(c) : StreamCall(c, a)
    \/ \E c \in Callers : StreamSubscribe(c)
    \/ \E c \in Callers : StreamStart(c)
    \/ \E c \in Callers : StreamStartReturn(c)
    \/ \E m \in StreamFrames : StreamFrame(m)
    \/ \E c \in Callers : Recv(c)
    \/ Reader

SpecStream == StreamInit /\ [][StreamNext]_vars

\* The owner of a listener keeps calling recv, and the runtime resumes it
\* whenever sub.recv() can complete.
StreamFairness == \A c \in Callers : WF_vars(Recv(c))

SpecStreamFair == StreamInit /\ [][StreamNext]_vars /\ StreamFairness

\* ------------------------------------------------------------------------
\* The HostClient under repeated calls, cancellation and late responses
\* ------------------------------------------------------------------------

\* The number of calls made in a run.
MaxRequests == 4

\* The endpoints of the single-request operations get_devices and
\* get_device_logs.
MuxEndpoints == {"GetDevices", "GetLogs"}

\* The operations a caller makes: c1 get_devices, c2 either.
MuxCallsOf(c) == IF c = "c1" THEN {"GetDevices"} ELSE MuxEndpoints

\* The key of ERROR_PATH, the wire-error key.
WireErrKey == "error"

\* A request the daemon has read: its sequence number and endpoint, and its
\* number among the requests of the run.
WireReq(seq, ep, n) == [seq |-> seq, ep |-> ep, n |-> n]

\* A plausible slip: the key of the frame is not compared.
MatchesSeqOnly(sl, f) == sl.seq = f.seq

\* The frame fulfils the slot: the sequence numbers are equal and the key is
\* the response key the slot expects or the wire-error key.
Matches(sl, f) == sl.seq = f.seq /\ (f.key = sl.ep \/ f.key = WireErrKey)

\* The outcome a frame gives its slot.
OutcomeOf(f) ==
    IF f.key = WireErrKey THEN Outcome("err", NoVal, HostErr("Wire", "UnknownKey"))
    ELSE Outcome("ok", <<1>>, NoHostErr)

\* get_devices() / get_device_logs(serial, count) called with the client
\* handle: the one send_resp of the operation, up to its await.  The request
\* is numbered, to tell it from the others of the run.
MuxCall(c, ep) ==
    /\ connResult = "Ok"
    /\ pc[c] = "idle"
    /\ ep \in MuxCallsOf(c)
    /\ ~muxClosed
    /\ reqCount < MaxRequests
    /\ pc' = [pc EXCEPT ![c] = "waiting"]
    /\ SendResp(c, ep, reqCount + 1)
    /\ reqCount' = reqCount + 1
    /\ atDaemon' = atDaemon \cup {WireReq(AllocSeq(nextSeq, pending), ep, reqCount + 1)}
    /\ UNCHANGED <<args, found, result, muxClosed, net, lastRead, connVars, framerVars, streamVars, txVars>>

\* The operation resumes with the outcome and returns:
\* `Ok(self.client.send_resp::<..>(..).await?)`.  The history of the
\* operation ends with it.
MuxReturn(c) ==
    /\ pc[c] = "waiting"
    /\ inbox[c].st # "none"
    /\ result' = [result EXCEPT ![c] =
                     IF inbox[c].st = "err" THEN FromHostErr(inbox[c].err)
                     ELSE Res("Ok", NoVal, "response", "")]
    /\ pc' = [pc EXCEPT ![c] = "idle"]
    /\ inbox' = [inbox EXCEPT ![c] = NoOutcome]
    /\ trace' = [trace EXCEPT ![c] = <<>>]
    /\ UNCHANGED <<pending, nextSeq, args, found, muxClosed, connVars, framerVars,
                   streamVars, wireVars, txVars>>

\* The caller drops the future of the operation while it waits: its slot, if
\* still there, is removed and the outcome, if already there, is lost.  The
\* history of the operation ends with it.
MuxCancel(c) ==
    /\ pc[c] = "waiting"
    /\ pending' = {sl \in pending : sl.task # c}
    /\ inbox' = [inbox EXCEPT ![c] = NoOutcome]
    /\ trace' = [trace EXCEPT ![c] = <<>>]
    /\ result' = [result EXCEPT ![c] = Res("Cancelled", NoVal, "", "")]
    /\ pc' = [pc EXCEPT ![c] = "idle"]
    /\ UNCHANGED <<nextSeq, muxClosed, args, found, connVars, framerVars, streamVars, wireVars, txVars>>

\* The daemon answers a request it has read: with a response frame carrying
\* the request's sequence number and the endpoint's response key or the
\* wire-error key.
DaemonReply(r, key) ==
    /\ ~muxClosed
    /\ r \in atDaemon
    /\ key \in {r.ep, WireErrKey}
    /\ atDaemon' = atDaemon \ {r}
    /\ net' = net \cup {Frame(r.seq, key, r.n)}
    /\ UNCHANGED <<reqCount, lastRead, muxVars, trace, connVars, callVars, framerVars, streamVars, txVars>>

\* The reader pulls a response frame and classifies it: it fulfils the
\* pending slot it matches, or is discarded.
ReaderFrame(f) ==
    /\ ~muxClosed
    /\ f \in net
    /\ net' = net \ {f}
    /\ IF \E sl \in pending : Matches(sl, f)
       THEN LET slot == CHOOSE sl \in pending : Matches(sl, f)
            IN /\ Fulfil(slot, OutcomeOf(f))
               /\ lastRead' = Read("fulfil", f, RequestOf(slot))
       ELSE /\ lastRead' = Read("discard", f, 0)
            /\ UNCHANGED <<muxVars, trace>>
    /\ UNCHANGED <<reqCount, atDaemon, connVars, callVars, framerVars, streamVars, txVars>>

MuxInit == Connected /\ FramerIdle

MuxNext ==
    \/ \E c \in Callers : \E ep \in MuxCallsOf(c) : MuxCall(c, ep)
    \/ \E c \in Callers : MuxReturn(c)
    \/ \E c \in Callers : MuxCancel(c)
    \/ \E r \in atDaemon : \E key \in {r.ep, WireErrKey} : DaemonReply(r, key)
    \/ \E f \in net : ReaderFrame(f)

SpecMux == MuxInit /\ [][MuxNext]_vars

\* ------------------------------------------------------------------------
\* PoststationClient: logs, topic history and publishes
\* ------------------------------------------------------------------------

\* The operations that send one request and return its response.
LogOps == {"get_device_logs", "get_device_logs_range"}

\* The topic types T a publisher may be compiled against.
TypedTopicsIn == {TpReport("tp/a", 5, "u8")}

\* The calls of this part a caller may make: c1 the topic histories and the
\* publishes (count is not modelled), c2 the logs.
OpsOf(c) ==
    IF c = "c1"
    THEN {Args(op, 1, NoEndpoint, p, 0, NoVal) :
             op \in {"get_device_topics_out_by_path_raw", "get_device_topics_out_by_path_json"},
             p \in TopicPaths}
           \cup UNION {{Args("publish_topic", 1, T, T.path, 0, b) : b \in TypedBodies([req_ty |-> T.ty])} :
                          T \in TypedTopicsIn}
           \cup {Args("publish_topic_json", 1, NoEndpoint, p, 0, b) : p \in TopicPaths, b \in JsonValues}
    ELSE {Args(op, sn, NoEndpoint, "", 0, NoVal) : op \in LogOps, sn \in Serials}

\* A plausible slip: the raw topic history asks for the messages at once.
FirstEndpointRawDirect(a) ==
    IF a.op = "get_device_logs" THEN "GetLogs"
    ELSE IF a.op = "get_device_logs_range" THEN "GetLogsRange"
    ELSE IF a.op = "get_device_topics_out_by_path_raw" THEN "GetTopics"
    ELSE "GetSchemas"

\* The endpoint of the first send_resp of a call: get_device_logs and
\* get_device_logs_range send their request, the others call
\* get_device_schemas(serial).
FirstEndpoint(a) ==
    IF a.op = "get_device_logs" THEN "GetLogs"
    ELSE IF a.op = "get_device_logs_range" THEN "GetLogsRange"
    ELSE "GetSchemas"

\* The endpoint of the second send_resp of a topic history or a publish.
SecondEndpoint(a) ==
    IF a.op \in {"publish_topic", "publish_topic_json"} THEN "Publish" ELSE "GetTopics"

\* `Ok(None)`
OkNone == Res("Ok", NoVal, "None", "")

\* get_device_topics_out_by_path_raw / _json from the return of
\* get_device_schemas to the TopicRequest: `.await?`, then `Ok(None)` for an
\* unknown device or path.
HistoryAfterSchema(a, res) ==
    IF res.st = "err" THEN Return(FromHostErr(res.err))
    ELSE IF ~res.val.some THEN Return(OkNone)
    ELSE LET i == FindTopicByPath(res.val.topics_out, a.path)
         IN IF i = 0 THEN Return(OkNone)
            ELSE Send(res.val.topics_out[i],
                      TopicRequest(a.serial, 0, a.path, res.val.topics_out[i].key))

\* publish_topic / publish_topic_json from the return of get_device_schemas
\* to the PublishRequest: `let Ok(Some(schemas)) = ... else`, the lookup in
\* topics_in and the encoding of the body.
PublishAfterSchema(a, res) ==
    IF res.st = "err" \/ ~res.val.some THEN Return(Server("topic not found"))
    ELSE LET i == IF a.op = "publish_topic" THEN FindTopicTyped(res.val.topics_in, a.ep)
                  ELSE FindTopicByPath(res.val.topics_in, a.path)
         IN IF i = 0 THEN Return(Server("topic not found"))
            ELSE LET schema == res.val.topics_in[i]
                     body == IF a.op = "publish_topic" THEN to_stdvec(a.body)
                             ELSE to_stdvec_dyn(schema.ty, a.body)
                 IN IF ~body.ok
                    THEN Return(IF a.op = "publish_topic" THEN ClientError("Encoding")
                                ELSE Dynamic("provided JSON does not match the schema for this topic", ""))
                    ELSE Send(schema, PublishRequest(a.serial, schema.path, schema.key,
                                                     a.seq_no, body.bytes))

\* A topic history from the return of send_resp::<GetTopicsEndpoint> on: the
\* raw one returns the response, the JSON one decodes every message with the
\* type of the schema.
HistoryAfterTopics(a, schema, res) ==
    IF res.st = "err" THEN FromHostErr(res.err)
    ELSE IF ~res.val.some THEN OkNone
    ELSE IF a.op = "get_device_topics_out_by_path_raw" THEN Res("Ok", NoVal, "msgs", "")
    ELSE IF \E k \in 1..Len(res.val.msgs) : ~from_slice_dyn(schema.ty, res.val.msgs[k]).ok
    THEN ClientError("Encoding")
    ELSE Res("Ok", NoVal, "values", "")

\* A publish from the return of send_resp::<PublishEndpoint> on.
PublishAfterPublish(res) ==
    IF res.st = "err" THEN FromHostErr(res.err)
    ELSE IF res.val.variant = "Sent" THEN ResOk(NoVal)
    ELSE Server(res.val.msg)

\* A caller holding the client handle calls a log operation, a topic history
\* or a publish: up to the await of its first send_resp.
OpCall(c, a) ==
    /\ connResult = "Ok"
    /\ pc[c] = "idle"
    /\ a \in OpsOf(c)
    /\ args' = [args EXCEPT ![c] = a]
    /\ pc' = [pc EXCEPT ![c] = IF a.op \in LogOps THEN "logs" ELSE "topicschema"]
    /\ SendResp(c, FirstEndpoint(a), a.serial)
    /\ UNCHANGED <<found, result, muxClosed, connVars, framerVars, streamVars, wireVars, txVars>>

\* get_device_logs / get_device_logs_range return:
\* `Ok(self.client.send_resp::<..>(..).await?)`.
LogsReturn(c) ==
    /\ pc[c] = "logs"
    /\ inbox[c].st # "none"
    /\ result' = [result EXCEPT ![c] =
                     IF inbox[c].st = "err" THEN FromHostErr(inbox[c].err)
                     ELSE Res("Ok", NoVal, "logs", "")]
    /\ pc' = [pc EXCEPT ![c] = "done"]
    /\ NoSend(c)
    /\ UNCHANGED <<args, found, muxClosed, connVars, framerVars, streamVars, wireVars, txVars>>

\* A topic history or a publish resumes with the schema report: it returns,
\* or sends its TopicRequest or PublishRequest.
TopicSchemaReturn(c) ==
    /\ pc[c] = "topicschema"
    /\ inbox[c].st # "none"
    /\ LET step == IF SecondEndpoint(args[c]) = "Publish" THEN PublishAfterSchema(args[c], inbox[c])
                   ELSE HistoryAfterSchema(args[c], inbox[c])
       IN IF step.send
          THEN /\ found' = [found EXCEPT ![c] = step.sel]
               /\ pc' = [pc EXCEPT ![c] = "topicsecond"]
               /\ result' = result
               /\ SendResp(c, SecondEndpoint(args[c]), step.req)
          ELSE /\ found' = found
               /\ pc' = [pc EXCEPT ![c] = "done"]
               /\ result' = [result EXCEPT ![c] = step.result]
               /\ NoSend(c)
    /\ UNCHANGED <<args, muxClosed, connVars, framerVars, streamVars, wireVars, txVars>>

\* A topic history or a publish resumes with the outcome of its second
\* request and returns.
TopicSecondReturn(c) ==
    /\ pc[c] = "topicsecond"
    /\ inbox[c].st # "none"
    /\ result' = [result EXCEPT ![c] =
                     IF SecondEndpoint(args[c]) = "Publish" THEN PublishAfterPublish(inbox[c])
                     ELSE HistoryAfterTopics(args[c], found[c], inbox[c])]
    /\ pc' = [pc EXCEPT ![c] = "done"]
    /\ NoSend(c)
    /\ UNCHANGED <<args, found, muxClosed, connVars, framerVars, streamVars, wireVars, txVars>>

\* The operations of a connected client that name a device, each caller
\* making one call: the endpoint calls, the stream calls up to the listener,
\* the logs, the topic histories and the publishes.  The daemon answers
\* every request, with a response or with one that does not deserialize.
OpsNext ==
    \/ \E c \in Callers : \E a \in CallsOf(c) : Call(c, a)
    \/ \E c \in Callers : DevicesReturn(c)
    \/ \E c \in Callers : SchemaReturn(c)
    \/ \E c \in Callers : ProxyReturn(c)
    \/ \E c \in Callers : \E a \in StreamCallsOf(c) : StreamCall(c, a)
    \/ \E c \in Callers : StreamSubscribe(c)
    \/ \E c \in Callers : StreamStart(c)
    \/ \E c \in Callers : StreamStartReturn(c)
    \/ \E c \in Callers : \E a \in OpsOf(c) : OpCall(c, a)
    \/ \E c \in Callers : LogsReturn(c)
    \/ \E c \in Callers : TopicSchemaReturn(c)
    \/ \E c \in Callers : TopicSecondReturn(c)
    \/ \E slot \in pending : \E v \in ResponseValues(slot.ep, OpOf(slot), RequestOf(slot)) : ReaderResponse(slot, v)
    \/ \E slot \in pending : ReaderGarbled(slot)

SpecOps == StreamInit /\ [][OpsNext]_vars

\* ------------------------------------------------------------------------
\* The framer: TcpCommsTx::send_inner and TcpCommsRx::receive_inner
\* ------------------------------------------------------------------------

\* The payloads whose wire frame still fits the bound on the bytes written.
Payloads(room) ==
    IF room < 1 THEN {}
    ELSE {p \in SeqsUpTo(PayloadBytes, room) : Len(p) + 2 <= room \/ p = <<>>}

RxOk(msg) == [kind |-> "Ok", msg |-> msg]

RxErr(e) == [kind |-> "Err", msg |-> e]

FramerInit == FramerIdle /\ RpcIdle

\* `cobs::encode_vec(&data)` then `data.push(0)`: the buffer of the one
\* write_all call.
WireFrame(data) == Append(encode_vec(data), 0)

\* send_inner(data): one write_all of the encoded payload and its terminator.
send_inner(data) ==
    /\ link = "open"
    /\ txlog' = Append(txlog, data)
    /\ writes' = Append(writes, WireFrame(data))
    /\ wire' = wire \o WireFrame(data)
    /\ UNCHANGED <<link, buf, rxlog, rxClosed, since, ovfPos, midFrame>>
    /\ UNCHANGED rpcVars

\* The peer closes the socket (reads drain what was written, then return 0)
\* or the socket fails (reads return an error).
PeerClose(how) ==
    /\ link = "open"
    /\ link' = how
    /\ UNCHANGED <<txlog, writes, wire, buf, rxlog, rxClosed, since, ovfPos, midFrame>>
    /\ UNCHANGED rpcVars

\* `self.buf.len() > (1024 * 1024)`
OverCap(b) == Len(b) > MaxAccum

\* A plausible slip: the accumulator is not cleared on overflow.
ClearedKept(b) == b

\* `self.buf.clear()`
Cleared(b) == <<>>

\* A plausible slip: split_off(pos + 2), one byte of the next frame is lost.
RemainderOffByOne(b, pos) == SubSeq(b, pos + 2, Len(b))

\* `split_off(pos + 1)` and the swap: what stays in self.buf.
Remainder(b, pos) == SubSeq(b, pos + 1, Len(b))

\* The other side of the swap: the frame, its terminator included.
Split(b, pos) == SubSeq(b, 1, pos)

\* receive_inner, loop top: more than the cap is buffered.
RxOverflow ==
    /\ ~rxClosed
    /\ OverCap(buf)
    /\ buf' = Cleared(buf)
    /\ rxlog' = Append(rxlog, RxErr("RxOverflow"))
    /\ since' = <<>>
    /\ ovfPos' = Len(Flatten(writes)) - Len(wire)
    /\ UNCHANGED <<txlog, writes, wire, link, rxClosed, midFrame>>
    /\ UNCHANGED rpcVars

\* receive_inner: a terminator is buffered and the frame decodes.
RxFrame ==
    /\ ~rxClosed
    /\ ~OverCap(buf)
    /\ HasZero(buf)
    /\ LET pos == FirstZero(buf)
           res == decode_vec(Split(buf, pos))
       IN /\ res.ok
          /\ buf' = Remainder(buf, pos)
          /\ rxlog' = Append(rxlog, RxOk(res.msg))
    /\ UNCHANGED <<txlog, writes, wire, link, rxClosed, since, ovfPos, midFrame>>
    /\ UNCHANGED rpcVars

\* receive_inner: a terminator is buffered and the frame does not decode:
\* `continue 'frame`.
RxDiscard ==
    /\ ~rxClosed
    /\ ~OverCap(buf)
    /\ HasZero(buf)
    /\ LET pos == FirstZero(buf)
           res == decode_vec(Split(buf, pos))
       IN /\ ~res.ok
          /\ buf' = Remainder(buf, pos)
    /\ UNCHANGED <<txlog, writes, wire, link, rxlog, rxClosed, since, ovfPos, midFrame>>
    /\ UNCHANGED rpcVars

\* A plausible slip: the socket is read before the buffered bytes are searched
\* for a terminator.
RxReadEager(n) ==
    /\ ~rxClosed
    /\ ~OverCap(buf)
    /\ link # "reset"
    /\ n \in 1..Min(ReadChunk, Len(wire))
    /\ buf' = buf \o SubSeq(wire, 1, n)
    /\ wire' = SubSeq(wire, n + 1, Len(wire))
    /\ since' = since \o SubSeq(wire, 1, n)
    /\ midFrame' = (midFrame \/ wire[n] # 0)
    /\ UNCHANGED <<txlog, writes, link, rxlog, rxClosed, ovfPos>>
    /\ UNCHANGED rpcVars

\* receive_inner: no terminator buffered, the socket read returns n bytes.
RxRead(n) ==
    /\ ~rxClosed
    /\ ~OverCap(buf)
    /\ ~HasZero(buf)
    /\ link # "reset"
    /\ n \in 1..Min(ReadChunk, Len(wire))
    /\ buf' = buf \o SubSeq(wire, 1, n)
    /\ wire' = SubSeq(wire, n + 1, Len(wire))
    /\ since' = since \o SubSeq(wire, 1, n)
    /\ midFrame' = (midFrame \/ wire[n] # 0)
    /\ UNCHANGED <<txlog, writes, link, rxlog, rxClosed, ovfPos>>
    /\ UNCHANGED rpcVars

\* receive_inner: no terminator buffered, the socket read fails or returns 0.
RxConnError ==
    /\ ~rxClosed
    /\ ~OverCap(buf)
    /\ ~HasZero(buf)
    /\ link = "reset" \/ (link = "eof" /\ wire = <<>>)
    /\ rxlog' = Append(rxlog, RxErr("ConnError"))
    /\ rxClosed' = TRUE
    /\ UNCHANGED <<txlog, writes, wire, link, buf, since, ovfPos, midFrame>>
    /\ UNCHANGED rpcVars

receive_inner ==
    \/ RxOverflow
    \/ RxFrame
    \/ RxDiscard
    \/ \E n \in 1..ReadChunk : RxRead(n)
    \/ RxConnError

FramerNext ==
    \/ \E data \in Payloads(MaxWire - Len(Flatten(writes))) : send_inner(data)
    \/ \E how \in {"eof", "reset"} : PeerClose(how)
    \/ receive_inner

SpecFramer == FramerInit /\ [][FramerNext]_vars

\* ------------------------------------------------------------------------
\* The writer: the queue of request frames in front of TcpCommsTx::send
\* ------------------------------------------------------------------------

\* The number of requests handed to the writer in a run.
MaxSends == 4

\* The byte that marks the frames of a caller.
TagOf(c) == IF c = "c1" THEN 1 ELSE 2

\* The payloads of caller c among a sequence of payloads.
SenderSeq(c, log) == SelectSeq(log, LAMBDA p : p[1] = TagOf(c))

\* The payloads in the writer queue, in order.
Queued == [i \in 1..Len(outq) |-> outq[i].data]

\* A plausible slip: the writer takes the request queued last.
DequeueNewest(q) == [item |-> q[Len(q)], rest |-> SubSeq(q, 1, Len(q) - 1)]

\* The writer queue is first-in first-out.
Dequeue(q) == [item |-> Head(q), rest |-> Tail(q)]

\* A caller hands a request frame to the writer: the payload carries the
\* caller's mark and the number of the request among the caller's own.
WriterEnqueue(c) ==
    /\ link = "open"
    /\ Len(txlog) + Len(outq) < MaxSends
    /\ outq' = Append(outq, [task |-> c,
                             data |-> <<TagOf(c), Len(SenderSeq(c, txlog \o Queued)) + 1>>])
    /\ UNCHANGED <<writing, framerVars, connVars, muxVars, callVars, trace, streamVars, wireVars>>

\* The writer task, idle, takes the next request and calls send(data):
\* send_inner encodes it, appends the terminator and starts its write_all.
WriterTake ==
    /\ link = "open"
    /\ writing = <<>>
    /\ outq # <<>>
    /\ LET next == Dequeue(outq)
       IN /\ outq' = next.rest
          /\ txlog' = Append(txlog, next.item.data)
          /\ writes' = Append(writes, WireFrame(next.item.data))
          /\ writing' = WireFrame(next.item.data)
    /\ UNCHANGED <<wire, link, buf, rxlog, rxClosed, since, ovfPos, midFrame>>
    /\ UNCHANGED <<connVars, muxVars, callVars, trace, streamVars, wireVars>>

\* write_all makes progress: the socket accepts the next n bytes of the
\* buffer; the call returns when none is left.
WriterWrite(n) ==
    /\ link = "open"
    /\ n \in 1..Len(writing)
    /\ wire' = wire \o SubSeq(writing, 1, n)
    /\ writing' = SubSeq(writing, n + 1, Len(writing))
    /\ UNCHANGED <<outq, txlog, writes, link, buf, rxlog, rxClosed, since, ovfPos, midFrame>>
    /\ UNCHANGED <<connVars, muxVars, callVars, trace, streamVars, wireVars>>

TxInit == Connected /\ FramerIdle

TxNext ==
    \/ \E c \in Callers : WriterEnqueue(c)
    \/ WriterTake
    \/ \E n \in 1..(MaxAccum + 1) : WriterWrite(n)

SpecTx == TxInit /\ [][TxNext]_vars

\* The byte strings a peer may have put on the wire, well-formed or not.
WireStrings == SeqsUpTo(PayloadBytes, MaxWire)

\* The receiver in front of a peer that has written w, any bytes at all, in
\* one piece; nothing was sent by this side.
RxInit ==
    /\ RpcIdle
    /\ wire \in WireStrings
    /\ writes = <<wire>>
    /\ txlog = <<>>
    /\ link = "open"
    /\ buf = <<>>
    /\ rxlog = <<>>
    /\ rxClosed = FALSE
    /\ since = <<>>
    /\ ovfPos = -1
    /\ midFrame = FALSE

RxNext ==
    \/ \E how \in {"eof", "reset"} : PeerClose(how)
    \/ receive_inner

SpecRx == RxInit /\ [][RxNext]_vars

\* ------------------------------------------------------------------------
\* Properties of the framer
\* ------------------------------------------------------------------------

RECURSIVE OkMsgs(_)
\* The frames among the results of the receive calls, in order.
OkMsgs(log) ==
    IF log = <<>> THEN <<>>
    ELSE (IF Head(log).kind = "Ok" THEN <<Head(log).msg>> ELSE <<>>) \o OkMsgs(Tail(log))

IsOverflow(r) == r = RxErr("RxOverflow")

NoOverflowYet == \A i \in 1..Len(rxlog) : ~IsOverflow(rxlog[i])

AllNonEmpty == \A i \in 1..Len(txlog) : txlog[i] # <<>>

\* The index of the last RxOverflow in the log, 0 when there is none.
LastOverflow(log) ==
    IF \E i \in 1..Len(log) : IsOverflow(log[i])
    THEN CHOOSE i \in 1..Len(log) :
            IsOverflow(log[i]) /\ \A j \in (i + 1)..Len(log) : ~IsOverflow(log[j])
    ELSE 0

\* The frames yielded since the last RxOverflow.
OkSinceOverflow == OkMsgs(SubSeq(rxlog, LastOverflow(rxlog) + 1, Len(rxlog)))

RECURSIVE RefFrames(_)
\* The frames of a byte string: cut at every terminator, each piece decoded,
\* the pieces that do not decode dropped.
RefFrames(s) ==
    IF ~HasZero(s) THEN <<>>
    ELSE LET pos == FirstZero(s)
             d == decode_vec(SubSeq(s, 1, pos))
         IN (IF d.ok THEN <<d.msg>> ELSE <<>>) \o RefFrames(SubSeq(s, pos + 1, Len(s)))

RECURSIVE RefRest(_)
\* The bytes after the last terminator of a byte string.
RefRest(s) == IF ~HasZero(s) THEN s ELSE RefRest(SubSeq(s, FirstZero(s) + 1, Len(s)))

\* The offset on the wire at which the i-th frame written starts.
FrameStart(i) == Len(Flatten(SubSeq(writes, 1, i - 1)))

\* The payloads of the frames that start at or after wire offset k.
PayloadsFrom(k) ==
    LET first == {i \in 1..Len(txlog) : FrameStart(i) >= k}
    IN IF first = {} THEN <<>>
       ELSE SubSeq(txlog, CHOOSE i \in first : \A j \in first : i <= j, Len(txlog))

\* C2: N non-empty payloads sent through send_inner and read back in
\* arbitrary chunks, with the accumulator never over its cap, come out of
\* receive_inner as exactly the N payloads, in the order sent: what was yielded
\* is always a prefix of what was sent, and is all of it once every byte
\* written has been read and framed.
StreamingFramerEquivalence ==
    (AllNonEmpty /\ NoOverflowYet) =>
        /\ IsPrefix(OkMsgs(rxlog), txlog)
        /\ (wire = <<>> /\ ~HasZero(buf)) => (OkMsgs(rxlog) = txlog /\ buf = <<>>)

\* C2 witness: two non-empty frames were sent, a read ended in the middle of
\* a frame, and both payloads came out.
StreamingFramerWitness ==
    /\ Len(txlog) >= 2
    /\ AllNonEmpty
    /\ NoOverflowYet
    /\ midFrame
    /\ OkMsgs(rxlog) = txlog

\* C3: every send is one write_all whose buffer is the stuffed payload, free
\* of 0x00, followed by one 0x00; so the 0x00 bytes written are as many as the
\* frames sent, each the last byte of its frame.
WireFrameFormat ==
    /\ Len(writes) = Len(txlog)
    /\ \A i \in 1..Len(writes) :
          LET w == writes[i]
          IN /\ Len(w) >= 1
             /\ Last(w) = 0
             /\ ~HasZero(SubSeq(w, 1, Len(w) - 1))
             /\ txlog[i] # <<>> => decode_vec(w) = [ok |-> TRUE, msg |-> txlog[i]]
    /\ CountZeros(Flatten(writes)) = Len(txlog)

\* C3 witness: two frames were sent and one payload held a 0x00 byte.
WireFrameWitness ==
    /\ Len(txlog) >= 2
    /\ \E i \in 1..Len(txlog) : HasZero(txlog[i])

\* C4 as stated: after an RxOverflow the rest of the oversized frame is not
\* yielded, and the frames yielded afterwards are the frames that start after
\* the overflow, in order.
AccumulatorCapResumes ==
    ovfPos >= 0 => IsPrefix(OkSinceOverflow, PayloadsFrom(ovfPos))

\* C4 as amended: RxOverflow empties the accumulator and the receiver keeps
\* no memory of it: what it yields afterwards is what a receiver starting
\* empty yields from the bytes read since, the tail of the oversized frame
\* included.
AccumulatorCapForgets ==
    /\ OkSinceOverflow \o RefFrames(buf) = RefFrames(since)
    /\ RefRest(buf) = RefRest(since)

\* C4 witness: after an RxOverflow, a frame that was never sent has been
\* yielded from the tail of the oversized frame.
AccumulatorCapWitness ==
    \E i \in 1..Len(rxlog) :
        /\ IsOverflow(rxlog[i])
        /\ \E j \in (i + 1)..Len(rxlog) :
              /\ rxlog[j].kind = "Ok"
              /\ \A k \in 1..Len(txlog) : txlog[k] # rxlog[j].msg

\* ------------------------------------------------------------------------
\* Properties of connect and of the endpoint calls
\* ------------------------------------------------------------------------

IsEndpointCall(c) == args[c].op \in {"proxy_endpoint", "proxy_endpoint_json"}

\* The caller has taken up the schema report (or its failure).
PastSchema(c) == pc[c] \in {"proxy", "done"} /\ trace[c] # <<>>

\* The schema fetch of the call answered with Some(report).
GotReport(c) ==
    /\ PastSchema(c)
    /\ trace[c][1].ep = "GetSchemas"
    /\ trace[c][1].res.st = "ok"
    /\ trace[c][1].res.val.some

ReportOf(c) == trace[c][1].res.val.endpoints

SentProxy(c) == \E i \in 1..Len(trace[c]) : trace[c][i].ep = "Proxy"

\* The endpoint report agrees with E in path and in both keys.
MatchesTyped(e, E) == e.path = E.path /\ e.req_key = E.req_key /\ e.resp_key = E.resp_key

\* C1: a PoststationClient is returned only after a Ping carrying 42 was sent
\* and 42 came back; a failed ping or another token makes connect return
\* ConnectError::Protocol; without a returned client no caller ever issues a
\* request.
PingGateHolds ==
    /\ connResult = "Ok" =>
          /\ Len(trace["conn"]) = 1
          /\ trace["conn"][1].ep = "Ping"
          /\ trace["conn"][1].req = PingToken
          /\ trace["conn"][1].res.st = "ok"
          /\ trace["conn"][1].res.val = PingToken
    /\ (connPc = "done" /\ trace["conn"] # <<>>) =>
          LET res == trace["conn"][1].res
          IN (res.st = "err" \/ (res.st = "ok" /\ res.val # PingToken)) => connResult = "Protocol"
    /\ connResult # "Ok" => \A c \in Callers : pc[c] = "idle" /\ trace[c] = <<>>

\* C1 witness: the ping round-tripped, a client was returned and a caller
\* has completed an operation on it.
PingGateWitness ==
    /\ connResult = "Ok"
    /\ pc["c1"] = "done"
    /\ result["c1"].tag = "Ok"

\* C5: proxy_endpoint::<E> sends a ProxyRequest only after a schema report for
\* its serial that holds an endpoint agreeing with E in path, req_key and
\* resp_key; the request carries that path, those keys, the caller's serial
\* and seq_no; with the device unknown or no such endpoint it returns
\* Server("endpoint not found") and sends no ProxyRequest.
TypedResolution ==
    \A c \in Callers :
        args[c].op = "proxy_endpoint" =>
            /\ \A i \in 1..Len(trace[c]) :
                  trace[c][i].ep = "Proxy" =>
                      /\ i = 2
                      /\ GotReport(c)
                      /\ trace[c][1].req = args[c].serial
                      /\ \E k \in 1..Len(ReportOf(c)) : MatchesTyped(ReportOf(c)[k], args[c].ep)
                      /\ trace[c][i].req.path = args[c].ep.path
                      /\ trace[c][i].req.req_key = args[c].ep.req_key
                      /\ trace[c][i].req.resp_key = args[c].ep.resp_key
                      /\ trace[c][i].req.serial = args[c].serial
                      /\ trace[c][i].req.seq_no = args[c].seq_no
            /\ ( /\ PastSchema(c)
                 /\ trace[c][1].res.st = "ok"
                 /\ \/ ~trace[c][1].res.val.some
                    \/ \A k \in 1..Len(ReportOf(c)) : ~MatchesTyped(ReportOf(c)[k], args[c].ep) )
               => (result[c] = Server("endpoint not found") /\ ~SentProxy(c))

\* C5 witness: a typed call has sent its ProxyRequest from a report whose
\* first endpoint has E's path and not E's keys.
TypedResolutionWitness ==
    /\ args["c1"].op = "proxy_endpoint"
    /\ SentProxy("c1")
    /\ Len(ReportOf("c1")) = 2
    /\ ReportOf("c1")[1].path = args["c1"].ep.path
    /\ ~MatchesTyped(ReportOf("c1")[1], args["c1"].ep)

\* The first endpoint of the report with the path of the dynamic call, 0 when
\* the report holds none.
FirstWithPath(c) ==
    IF \E k \in 1..Len(ReportOf(c)) : ReportOf(c)[k].path = args[c].path
    THEN CHOOSE k \in 1..Len(ReportOf(c)) :
            /\ ReportOf(c)[k].path = args[c].path
            /\ \A j \in 1..(k - 1) : ReportOf(c)[j].path # args[c].path
    ELSE 0

\* C6: proxy_endpoint_json picks the endpoint of the report by path alone,
\* takes the keys from the report and encodes the value against its request
\* schema; a value that does not fit returns Dynamic(..) and no endpoint of
\* that path returns Server("endpoint not found"), in both cases without a
\* ProxyRequest being sent.
DynamicResolution ==
    \A c \in Callers :
        (args[c].op = "proxy_endpoint_json" /\ GotReport(c)) =>
            LET k == FirstWithPath(c)
            IN /\ k = 0 => (result[c] = Server("endpoint not found") /\ ~SentProxy(c))
               /\ (k # 0 /\ ~to_stdvec_dyn(ReportOf(c)[k].req_ty, args[c].body).ok) =>
                     (result[c].tag = "Dynamic" /\ ~SentProxy(c))
               /\ (k # 0 /\ to_stdvec_dyn(ReportOf(c)[k].req_ty, args[c].body).ok) =>
                     /\ Len(trace[c]) = 2
                     /\ trace[c][2].ep = "Proxy"
                     /\ trace[c][2].req =
                           ProxyRequest(args[c].serial, args[c].path, ReportOf(c)[k].req_key,
                                        ReportOf(c)[k].resp_key, args[c].seq_no,
                                        to_stdvec_dyn(ReportOf(c)[k].req_ty, args[c].body).bytes)

\* C6 witness: a dynamic call found its path in the report and returned
\* Dynamic(..) because the value did not fit the request schema.
DynamicResolutionWitness ==
    /\ args["c1"].op = "proxy_endpoint_json"
    /\ GotReport("c1")
    /\ FirstWithPath("c1") # 0
    /\ result["c1"].tag = "Dynamic"
    /\ ~SentProxy("c1")

\* The daemon answered the ProxyRequest of the call with a ProxyResponse.
GotProxyResponse(c) ==
    /\ pc[c] = "done"
    /\ Len(trace[c]) = 2
    /\ trace[c][2].ep = "Proxy"
    /\ trace[c][2].res.st = "ok"

\* C7: a reply ProxyResponse::Ok makes the call return the decoded body, or
\* Encoding (typed) / Dynamic (dynamic) when it does not decode; WireErr makes
\* it return Remote("WireErr: <body>"), OtherErr Remote("Other Server Err:
\* '<msg>'"); nothing but a reply Ok leads to Ok.
ProxySemantics ==
    \A c \in Callers :
        IsEndpointCall(c) =>
            /\ GotProxyResponse(c) =>
                  LET r == trace[c][2].res.val
                  IN /\ r.variant = "WireErr" => result[c] = Remote("WireErr: ", r.werr)
                     /\ r.variant = "OtherErr" => result[c] = Remote("Other Server Err: ", r.msg)
                     /\ (r.variant = "Ok" /\ args[c].op = "proxy_endpoint") =>
                           LET d == from_bytes(args[c].ep.resp_ty, r.body)
                           IN IF d.ok THEN result[c] = ResOk(d.val)
                              ELSE result[c] = ClientError("Encoding")
                     /\ (r.variant = "Ok" /\ args[c].op = "proxy_endpoint_json") =>
                           LET d == from_slice_dyn(found[c].resp_ty, r.body)
                           IN IF d.ok THEN result[c] = ResOk(d.val)
                              ELSE result[c].tag = "Dynamic"
            /\ result[c].tag = "Ok" => (GotProxyResponse(c) /\ trace[c][2].res.val.variant = "Ok")

\* C7 witness: a dynamic call sent the u8 value 128 and the reply Ok carried
\* the byte 0x80, decoded against the response schema i8 as -128; the WireErr
\* arm is reached in the same behaviours.
ProxySemanticsWitness ==
    /\ args["c1"].op = "proxy_endpoint_json"
    /\ GotProxyResponse("c1")
    /\ args["c1"].body = Val("json_num", 128)
    /\ result["c1"] = ResOk(Val("json_num", -128))

\* Some request of the call could not reach the daemon: the connection was
\* closed.
DaemonUnreachable(c) == \E i \in 1..Len(trace[c]) : trace[c][i].res = Closed

\* C8: an endpoint call one of whose requests (the schema fetch or the proxy
\* request) could not reach the daemon returns ConnectionClosed or Protocol.
UnreachableSurfaces ==
    \A c \in Callers :
        (IsEndpointCall(c) /\ pc[c] = "done" /\ DaemonUnreachable(c)) =>
            result[c].tag \in {"ConnectionClosed", "Protocol"}

\* The last request of the task was answered with the wire-error key and the
\* body w.
AnsweredWireError(t, w) ==
    /\ trace[t] # <<>>
    /\ Last(trace[t]).res = Outcome("err", NoVal, HostErr("Wire", w))

\* The task has a request in flight.
InFlight(t) == trace[t] # <<>> /\ Last(trace[t]).res.st = "none"

Somes(c) == SelectSeq(yielded[c], LAMBDA y : y.some)

\* What sub.recv() gave the listener of c that was a frame of its own stream.
OwnFrames(c) ==
    SelectSeq(consumed[c], LAMBDA r : r.kind = "Ok" /\ r.msg.stream_id = streamId[c])

\* What sub.recv() gave the listener of c that was a frame of another stream.
ForeignAt(c, i) ==
    /\ consumed[c][i].kind = "Ok"
    /\ consumed[c][i].msg.stream_id # streamId[c]

\* C10 (stream filter): whatever the interleaving of the frames of several
\* streams on the shared topic, every message a listener's recv returned was
\* taken from a frame whose stream_id is the id of Started(id) of that
\* listener; the frames of other streams it took from the subscription were
\* not returned (it returned no more messages than it took frames of its own
\* stream), and recv returned None, ending the stream, only on taking
\* IoClosed, never on a frame of another stream.
StreamFilter ==
    \A c \in Callers :
        /\ \A i \in 1..Len(yielded[c]) : yielded[c][i].some => yielded[c][i].id = streamId[c]
        /\ Len(Somes(c)) <= Len(OwnFrames(c))
        /\ (\E i \in 1..Len(yielded[c]) : ~yielded[c][i].some)
               => /\ consumed[c] # <<>>
                  /\ Last(consumed[c]).kind = "IoClosed"
        /\ pc[c] = "ended" <=> (\E i \in 1..Len(yielded[c]) : ~yielded[c][i].some)

\* Two listeners with different stream ids are open; one took a frame of the
\* other's stream from the subscription, then a frame of its own, returned
\* the latter only and is still listening; the other returned a message too.
StreamFilterWitness ==
    /\ streamId["c1"] = 1
    /\ streamId["c2"] = 2
    /\ pc["c1"] = "listening"
    /\ Len(consumed["c1"]) = 2
    /\ ForeignAt("c1", 1)
    /\ ~ForeignAt("c1", 2)
    /\ Len(Somes("c1")) = 1
    /\ Len(Somes("c2")) = 1

\* The caller made a stream call and its StartStream request has resolved.
StartResolved(c) ==
    /\ args[c].op \in StreamOps
    /\ Len(trace[c]) = 2
    /\ trace[c][2].ep = "StartStream"
    /\ trace[c][2].res.st # "none"
    /\ pc[c] # "starting"

\* The caller holds a listener.
HasListener(c) == pc[c] \in {"listening", "ended"}

\* The outcome of the StartStream request of c is Ok(Started(id)).
StartedReply(c) ==
    /\ trace[c][2].res.st = "ok"
    /\ trace[c][2].res.val.variant = "Started"

\* The Server(..) text of the three replies that start no stream.
ServerTextOf(variant) ==
    IF variant = "NoDeviceKnown" THEN "No Device Known"
    ELSE IF variant = "DeviceDisconnected" THEN "Device Disconnected"
    ELSE "No Such Topic"

\* C11 (stream start outcome): a stream call returns a listener if and only
\* if the daemon replied Started(id) to its StartStream request, and the
\* listener filters on that id and keeps its subscription; on NoDeviceKnown,
\* DeviceDisconnected or NoSuchTopic the call returns the matching
\* Server(..), on a failed request the error of the request, and in both
\* cases its subscription is no longer registered; a call that has not got
\* Started holds no listener.
StreamStartOutcome ==
    \A c \in Callers :
        /\ HasListener(c) => StartResolved(c) /\ StartedReply(c)
        /\ StartResolved(c) =>
              IF StartedReply(c)
              THEN /\ HasListener(c)
                   /\ result[c].tag = "Ok"
                   /\ streamId[c] = trace[c][2].res.val.id
                   /\ subs[c].live
              ELSE /\ pc[c] = "done"
                   /\ streamId[c] = 0
                   /\ ~subs[c].live
                   /\ subs[c].queue = <<>>
                   /\ IF trace[c][2].res.st = "ok"
                      THEN result[c] = Server(ServerTextOf(trace[c][2].res.val.variant))
                      ELSE result[c].tag \in {"Protocol", "Encoding", "ConnectionClosed"}

\* One caller holds a listener after Started(1); the other was answered
\* NoSuchTopic after a stream frame had been queued for its subscription,
\* and its subscription is gone.
StreamStartWitness ==
    /\ pc["c2"] = "listening"
    /\ StartResolved("c1")
    /\ trace["c1"][2].res.st = "ok"
    /\ trace["c1"][2].res.val.variant = "NoSuchTopic"
    /\ topicLog # <<>>
    /\ result["c1"] = Server("No Such Topic")

\* C12 (connection drop, S5): once the reader has seen end-of-stream or an I/O
\* error no request stays pending, and every call whose request was pending
\* then, or was issued afterwards and so failed without a sequence number
\* allocated or a slot inserted, returns ConnectionClosed.
ConnectionDropResolves ==
    /\ muxClosed => pending = {}
    /\ \A c \in Callers :
           (pc[c] = "done" /\ trace[c] # <<>> /\ Last(trace[c]).res = Closed)
               => result[c] = ClientError("ConnectionClosed")

\* recv of the listener of c has returned None.
ReturnedNone(c) == \E i \in 1..Len(yielded[c]) : ~yielded[c][i].some

\* C13 (subscription end-of-stream): once the connection has closed, the
\* recv calls of every open listener lead to one that returns None, after
\* the lag report and the messages still queued for it have been taken; and
\* recv has returned None only on taking IoClosed from the subscription,
\* with nothing left queued, never on a lag report, a frame of another
\* stream or an undecodable message.
SubscriptionEndOfStream ==
    /\ \A c \in Callers : (muxClosed /\ pc[c] = "listening") ~> (pc[c] = "ended")
    /\ [](\A c \in Callers :
             ReturnedNone(c) =>
                 /\ muxClosed
                 /\ Last(consumed[c]).kind = "IoClosed"
                 /\ subs[c].queue = <<>>
                 /\ \A i \in 1..(Len(consumed[c]) - 1) : consumed[c][i].kind # "IoClosed")

\* A listener returned None after the connection closed, having first taken
\* a lag report, a frame of another stream and a message of its own.
SubscriptionEndWitness ==
    /\ pc["c2"] = "ended"
    /\ Len(consumed["c2"]) = 4
    /\ consumed["c2"][1].kind = "Lagged"
    /\ ForeignAt("c2", 2) \/ ForeignAt("c2", 3)
    /\ Len(Somes("c2")) = 1

\* ------------------------------------------------------------------------
\* Properties of the pending table (SpecMux)
\* ------------------------------------------------------------------------

\* The slot of the request sent last, if it is still pending.
NewestSlots == {sl \in pending : RequestOf(sl) = reqCount}

\* C14: sequence uniqueness at rest.  Under any interleaving of calls,
\* responses, cancellations and wrap-around of the sequence counter, the
\* pending table holds at most one slot per sequence value, and a step that
\* inserts a slot gives it a value no slot pending before the step holds.
SequenceUniqueness ==
    /\ [](\A s1, s2 \in pending : s1.seq = s2.seq => s1 = s2)
    /\ [][\A sl \in pending' \ pending : sl.seq \notin SeqsOf(pending)]_vars

\* The counter has wrapped onto a value still pending and the newest request
\* skipped it: its sequence number is not the one its position in the run
\* would give, and both slots are pending.
SequenceUniquenessWitness ==
    /\ Cardinality(pending) = 2
    /\ \E sl \in NewestSlots : sl.seq # reqCount % SeqMod

\* The pending slots a frame is for: same sequence number, and the key of the
\* frame is the slot's response key or the wire-error key.
SlotsFor(f) == {sl \in pending : sl.seq = f.seq /\ f.key \in {sl.ep, WireErrKey}}

CancellationLeavesNoEntry ==
    /\ \A c \in Callers : pc[c] = "idle" => \A sl \in pending : sl.task # c
    /\ lastRead.how = "fulfil" => lastRead.frame.of = lastRead.req

\* ------------------------------------------------------------------------
\* Properties of the subscriptions (SpecStream)
\* ------------------------------------------------------------------------

\* The messages sub.recv() has handed to the listener of c, in order.
Taken(c) == SelectSeq(consumed[c], LAMBDA r : r.kind = "Ok")

\* The lag reports sub.recv() has handed to the listener of c, in order.
Lags(c) == SelectSeq(consumed[c], LAMBDA r : r.kind = "Lagged")

\* C17: subscriber isolation.  A subscription never holds more than the
\* depth it was created with; a step in which a topic frame arrives is
\* taken whatever the queues hold, and in it every registered subscription
\* fares by its own queue alone: with room the message is appended and the
\* lag counter kept, full the queue stays at its depth and the lag counter
\* goes up by one; the pending requests and their outcomes are untouched.
SubscriberIsolation ==
    /\ [](\A c \in Callers : Len(subs[c].queue) <= SubDepth)
    /\ [][Len(topicLog') > Len(topicLog) =>
            /\ pending' = pending
            /\ inbox' = inbox
            /\ \A c \in Callers :
                 IF ~subs[c].live THEN subs'[c] = subs[c]
                 ELSE IF Len(subs[c].queue) < SubDepth
                 THEN /\ subs'[c].queue = Append(subs[c].queue, topicLog'[Len(topicLog')])
                      /\ subs'[c].lag = subs[c].lag
                 ELSE /\ Len(subs'[c].queue) = SubDepth
                      /\ subs'[c].lag = subs[c].lag + 1]_vars

\* One subscriber reads nothing and has lost a message to its full queue,
\* while the other, subscribed from the start, has lost none and has taken
\* or holds every message of the wire.
SubscriberIsolationWitness ==
    \E c, d \in Callers :
        /\ subs[c].live /\ subs[c].lag > 0 /\ consumed[c] = <<>>
        /\ subs[d].live /\ subs[d].lag = 0 /\ Lags(d) = <<>> /\ subAt[d] = 0
        /\ Len(Taken(d)) + Len(subs[d].queue) = Len(topicLog)

\* The place of a topic frame on the wire (every frame arrives once).
WirePos(m) == CHOOSE i \in 1..Len(topicLog) : topicLog[i] = m

\* The messages subscription c has handed out, followed by those it holds.
Observed(c) == [i \in 1..Len(Taken(c)) |-> Taken(c)[i].msg] \o subs[c].queue

\* Subscription c has never dropped a message.
NeverLagged(c) == subs[c].lag = 0 /\ Lags(c) = <<>>

\* C18: per-subscription ordering and completeness.  What a subscription
\* has handed out and still holds are frames received on the wire after it
\* subscribed, in wire order and without duplicates; a registered
\* subscription that never overflowed has handed out or holds every frame
\* received since it subscribed, in order.
SubscriptionOrdering ==
    \A c \in Callers :
        /\ \A i \in 1..Len(Observed(c)) :
             /\ \E k \in (subAt[c] + 1)..Len(topicLog) : topicLog[k] = Observed(c)[i]
             /\ \A j \in 1..(i - 1) : WirePos(Observed(c)[j]) < WirePos(Observed(c)[i])
        /\ subs[c].live /\ NeverLagged(c) =>
             Observed(c) = SubSeq(topicLog, subAt[c] + 1, Len(topicLog))

\* Two subscribers of the topic, neither ever behind by more than the depth,
\* have both been handed every frame of the wire, in order.
SubscriptionOrderingWitness ==
    /\ Len(topicLog) = Cardinality(StreamFrames)
    /\ \A c \in Callers :
         /\ NeverLagged(c)
         /\ [i \in 1..Len(Taken(c)) |-> Taken(c)[i].msg] = topicLog

\* The frames dropped for subscription c: received since it subscribed and
\* neither handed out nor held.
Dropped(c) ==
    {topicLog[k] : k \in (subAt[c] + 1)..Len(topicLog)} \
        {Observed(c)[i] : i \in 1..Len(Observed(c))}

\* The number of drops the lag reports of c have told of.
LagSum(c) ==
    LET RECURSIVE Sum(_)
        Sum(rs) == IF rs = <<>> THEN 0 ELSE Head(rs).n + Sum(Tail(rs))
    IN Sum(Lags(c))

\* C19: lag behaviour.  Every frame fanned out to a subscription is handed
\* out, held, counted in the lag counter or told of in a lag report.  A recv
\* on a subscription whose counter is not zero gives Lagged(n), n the
\* counter, and resets it; for a subscriber that had read nothing while k
\* frames were fanned out, n is at least k less the depth.  A message handed
\* out comes after every frame dropped so far, in wire order.
LagBehaviour ==
    /\ [](\A c \in Callers : subs[c].live =>
            Len(Observed(c)) + subs[c].lag + LagSum(c) = Len(topicLog) - subAt[c])
    /\ [][\A c \in Callers : Len(consumed'[c]) > Len(consumed[c]) =>
            LET r == consumed'[c][Len(consumed'[c])]
            IN /\ subs[c].lag > 0 =>
                    /\ r.kind = "Lagged" /\ r.n = subs[c].lag /\ subs'[c].lag = 0
                    /\ consumed[c] = <<>> => r.n >= Len(topicLog) - subAt[c] - SubDepth
               /\ r.kind = "Ok" =>
                    \A d \in Dropped(c) : WirePos(d) < WirePos(r.msg)]_vars

\* A subscriber that read nothing while more frames than the depth arrived
\* has resumed: its first recv gave Lagged(n), n the frames beyond the depth,
\* and the next ones gave the frames it still held.
LagBehaviourWitness ==
    \E c \in Callers :
        /\ Len(consumed[c]) > SubDepth
        /\ consumed[c][1].kind = "Lagged"
        /\ consumed[c][1].n = Len(topicLog) - subAt[c] - SubDepth
        /\ Len(Taken(c)) = SubDepth

\* ------------------------------------------------------------------------
\* Properties of the order of requests within an operation (SpecOps)
\* ------------------------------------------------------------------------

\* The caller has called an operation that names a device, and the
\* operation has sent its first request.
TargetsDevice(c) == args[c].op \notin {"none", "get_devices"} /\ trace[c] # <<>>

\* The operation of c has gone beyond its first request: it has sent a
\* second one or registered a subscription.
WentOn(c) == Len(trace[c]) >= 2 \/ subs[c].live

\* The list of the schema report the operation of c searches.
SearchedList(c) ==
    LET report == trace[c][1].res.val
    IN IF args[c].op \in {"proxy_endpoint", "proxy_endpoint_json"} THEN report.endpoints
       ELSE IF args[c].op \in {"publish_topic", "publish_topic_json"} THEN report.topics_in
       ELSE report.topics_out

\* The first request of c was answered with the schema report of a known
\* device, the entry the operation works with is an entry of that report
\* with the path the caller named, and a second request carries the path and
\* the keys of that entry.
Located(c) ==
    /\ trace[c][1].res.st = "ok"
    /\ trace[c][1].res.val.some
    /\ \E i \in 1..Len(SearchedList(c)) : SearchedList(c)[i] = found[c]
    /\ found[c].path = args[c].path
    /\ Len(trace[c]) >= 2 =>
         LET second == trace[c][2]
         IN /\ second.req.path = found[c].path
            /\ IF second.ep = "Proxy"
               THEN second.req.req_key = found[c].req_key /\ second.req.resp_key = found[c].resp_key
               ELSE second.req.key = found[c].key

\* C20: schema first.  Every operation that names a device (logs, log
\* ranges, topic histories, endpoint calls, publishes, stream calls) sends
\* GetSchemas as its first request, and sends a second request or subscribes
\* only with an entry located in the report it got.
SchemaFirst ==
    \A c \in Callers : TargetsDevice(c) =>
        /\ trace[c][1].ep = "GetSchemas"
        /\ WentOn(c) => Located(c)

\* C20, amended: the operations that name a path or a key (topic histories,
\* endpoint calls, publishes, stream calls) send GetSchemas as their first
\* request, and send a second request or subscribe only with an entry
\* located in the report they got; get_device_logs and get_device_logs_range
\* send their one request at once and nothing else.
SchemaFirstForPaths ==
    \A c \in Callers : TargetsDevice(c) =>
        IF args[c].op \in LogOps
        THEN /\ trace[c] = <<Sent(FirstEndpoint(args[c]), args[c].serial, trace[c][1].res)>>
             /\ trace[c][1].ep \in {"GetLogs", "GetLogsRange"}
             /\ ~subs[c].live
        ELSE /\ trace[c][1].ep = "GetSchemas"
             /\ WentOn(c) => Located(c)

\* A publish has sent its PublishRequest with the topic it found in the
\* schema report, and a log call has returned the response to its one
\* request.
SchemaFirstWitness ==
    /\ args["c1"].op \in {"publish_topic", "publish_topic_json"}
    /\ Len(trace["c1"]) = 2 /\ trace["c1"][2].ep = "Publish" /\ Located("c1")
    /\ args["c2"].op \in LogOps /\ pc["c2"] = "done" /\ result["c2"].tag = "Ok"

\* The topic history operations.
HistoryOps == {"get_device_topics_out_by_path_raw", "get_device_topics_out_by_path_json"}

\* The daemon has told the operation of c that it does not know the device:
\* with the schema report, or with the reply to the TopicRequest.
DeviceUnknown(c) ==
    \E k \in 1..Len(trace[c]) : trace[c][k].res.st = "ok" /\ ~trace[c][k].res.val.some

\* C21: topic-history result contract.  A topic history that has returned
\* Ok(None) was told by the daemon that the device is not known; one whose
\* requests all succeeded for a known device has returned Ok(Some(msgs)).
TopicHistoryContract ==
    \A c \in Callers : args[c].op \in HistoryOps /\ pc[c] = "done" =>
        /\ result[c] = OkNone => DeviceUnknown(c)
        /\ (\A k \in 1..Len(trace[c]) : trace[c][k].res.st = "ok") /\ ~DeviceUnknown(c)
             /\ args[c].op = "get_device_topics_out_by_path_raw" =>
               result[c].tag = "Ok" /\ result[c] # OkNone

\* ------------------------------------------------------------------------
\* Properties of the receiver in front of arbitrary bytes (SpecRx)
\* ------------------------------------------------------------------------

\* The bytes the socket reads have returned so far.
ReadSoFar == SubSeq(Flatten(writes), 1, Len(Flatten(writes)) - Len(wire))

RECURSIVE PiecesFit(_)
\* No piece of a byte string, cut at the terminators, is longer than the cap,
\* its terminator included.
PiecesFit(s) ==
    IF ~HasZero(s) THEN Len(s) <= MaxAccum
    ELSE FirstZero(s) <= MaxAccum /\ PiecesFit(SubSeq(s, FirstZero(s) + 1, Len(s)))

\* C22: bad-frame recovery.  Bytes up to a terminator that do not decode are
\* dropped without an error and the scan goes on: on a stream none of whose
\* pieces exceeds the cap, the frames yielded and those still buffered are
\* the pieces of the bytes read that decode, in order, so that every
\* well-formed frame after a corrupt one is yielded, and no error is
\* returned while the peer keeps the connection.
BadFrameRecovery ==
    PiecesFit(Flatten(writes)) =>
        /\ OkMsgs(rxlog) \o RefFrames(buf) = RefFrames(ReadSoFar)
        /\ \A i \in 1..Len(rxlog) : rxlog[i].kind = "Err" => link # "open"

\* Every frame written is, with its terminator, no longer than the cap.
AllFramesFit == \A i \in 1..Len(writes) : Len(writes[i]) <= MaxAccum

\* C28: no false overflow.  A stream in which every frame, terminator
\* included, is no longer than the cap never makes receive report
\* RxOverflow and never loses a frame, whatever the chunks the socket reads
\* return and whatever follows a frame in the same read.
NoFalseOverflow ==
    AllFramesFit =>
        /\ NoOverflowYet
        /\ AllNonEmpty => IsPrefix(OkMsgs(rxlog), txlog)

\* The socket read of this moment fails or returns 0 bytes.
ReadFails == link = "reset" \/ (link = "eof" /\ wire = <<>>)

\* C23: ConnError.  When receive has returned ConnError the accumulator
\* holds no terminator and the socket read fails or returns 0 bytes; on a
\* stream none of whose pieces exceeds the cap, every frame completed by the
\* bytes read before it was yielded by an earlier call, in order, and
\* nothing else was: the bytes of a partial frame were not yielded.
ConnErrorAfterFrames ==
    (rxlog # <<>> /\ Last(rxlog) = RxErr("ConnError")) =>
        /\ ~HasZero(buf)
        /\ ReadFails
        /\ PiecesFit(Flatten(writes)) =>
             OkMsgs(SubSeq(rxlog, 1, Len(rxlog) - 1)) = RefFrames(ReadSoFar)

\* ------------------------------------------------------------------------
\* Properties of the results of the operations (SpecOps)
\* ------------------------------------------------------------------------

\* The operations compiled against a type the caller supplies.
TypedOps == {"proxy_endpoint", "publish_topic", "stream_topic"}

\* The operations that encode or decode by the schema of the device.
DynamicOps ==
    {"proxy_endpoint_json", "publish_topic_json", "get_device_topics_out_by_path_json",
     "stream_topic_json"}

\* A response to a request of c did not deserialize to the response type of
\* its endpoint.
ResponseGarbled(c) ==
    \E k \in 1..Len(trace[c]) : trace[c][k].res.st = "err" /\ trace[c][k].res.err.kind = "Postcard"

\* C24: dynamic error taxonomy.  An operation returns Encoding only for a
\* failure with a type supplied at compile time (a typed body, or the
\* response type of an endpoint), and a failure of encoding or decoding by
\* the device's schema is returned as Dynamic: an operation that works by
\* the schema returns Encoding only when a response did not deserialize, and
\* none that works with a supplied type returns Dynamic.
DynamicErrorTaxonomy ==
    \A c \in Callers : pc[c] = "done" =>
        /\ result[c].tag = "Encoding" => args[c].op \in TypedOps \/ ResponseGarbled(c)
        /\ result[c].tag = "Dynamic" => args[c].op \in DynamicOps

\* ------------------------------------------------------------------------
\* Properties of the start of a stream (SpecStream)
\* ------------------------------------------------------------------------

\* The stream call of c has put its StartStream request on the wire.
StartSent(c) == \E k \in 1..Len(trace[c]) : trace[c][k].ep = "StartStream"

\* C25: subscribe before start.  The step of a stream call that sends
\* StartStream is taken with the subscription of the call registered, and
\* from then on, until the call fails, every stream frame that arrives is
\* handed to that subscription (queued, or counted as lagged): none finds the
\* listener missing.
SubscribeBeforeStart ==
    [][\A c \in Callers :
         /\ (StartSent(c)' /\ ~StartSent(c)) => subs[c].live /\ subs'[c].live
         /\ (Len(topicLog') > Len(topicLog) /\ StartSent(c) /\ pc[c] \in {"starting", "listening"}) =>
              /\ subs[c].live
              /\ \/ subs'[c].lag = subs[c].lag + 1
                 \/ subs'[c].queue = Append(subs[c].queue, Last(topicLog'))]_vars

\* A stream call still waits for the reply to StartStream and its
\* subscription already holds a frame of the stream.
SubscribeBeforeStartWitness ==
    \E c \in Callers :
        /\ pc[c] = "starting"
        /\ StartSent(c)
        /\ subs[c].queue # <<>>

\* ------------------------------------------------------------------------
\* Properties of the writer (SpecTx)
\* ------------------------------------------------------------------------

\* The bytes of the frames passed to send_inner, frame after frame.
FramesInOrder == Flatten([i \in 1..Len(txlog) |-> Append(encode_vec(txlog[i]), 0)])

\* C26: request FIFO.  The bytes on the socket, with those of the write in
\* progress, are the frames of the requests in the order the writer took
\* them, each frame's encoded bytes and terminator in one piece; and the
\* requests of one caller are on the wire, and taken, in the order the caller
\* issued them, whatever the other callers send meanwhile.
RequestFifo ==
    /\ wire \o writing = FramesInOrder
    /\ \A c \in Callers :
         /\ \A i \in 1..Len(SenderSeq(c, RefFrames(wire))) : SenderSeq(c, RefFrames(wire))[i][2] = i
         /\ \A i \in 1..Len(SenderSeq(c, txlog \o Queued)) : SenderSeq(c, txlog \o Queued)[i][2] = i

\* Two callers send at once: two requests of one caller are on the wire in
\* full and in order, a frame of the other caller is half written, and a
\* further request waits in the queue.
RequestFifoWitness ==
    /\ \E c \in Callers :
         /\ Len(SenderSeq(c, RefFrames(wire))) >= 2
         /\ Last(txlog)[1] # TagOf(c)
    /\ writing # <<>> /\ Len(writing) < Len(Last(writes))
    /\ outq # <<>>

\* ------------------------------------------------------------------------
\* Properties of the socket options (Spec)
\* ------------------------------------------------------------------------

Yields == Len(rxlog') = Len(rxlog) + 1 /\ rxlog'[Len(rxlog')].kind = "Ok"

\* The call of receive that ends in this step returns the error e.
Fails(e) == Len(rxlog') = Len(rxlog) + 1 /\ rxlog'[Len(rxlog')] = RxErr(e)

AfterProxy(c, res) ==
    IF args[c].op = "proxy_endpoint" THEN TypedAfterProxy(args[c], res)
    ELSE JsonAfterProxy(args[c], found[c], res)

\* The replies the daemon may give to c's ProxyRequest that agree with resp
\* in variant and body.
SameButCorrelation(c, resp) ==
    {r \in ProxyResponses(Last(trace[c]).req) :
        r.variant = resp.variant /\ r.body = resp.body}

\* C30: proxy result independence from the echoed correlation fields.  When
\* proxy_endpoint or proxy_endpoint_json returns on a ProxyResponse::Ok, the
\* value returned is the one it would return on any other Ok reply with the
\* same body, whatever that reply's resp_key and seq_no, the request's or
\* not; it is the decoded body or the decode error, never a mismatch error.
ProxyResultIndependence ==
    [][\A c \in Callers :
         (/\ pc[c] = "proxy"
          /\ pc'[c] = "done"
          /\ inbox[c].st = "ok"
          /\ inbox[c].val.variant = "Ok")
         => /\ \A r \in SameButCorrelation(c, inbox[c].val) :
                 result'[c] = AfterProxy(c, Outcome("ok", r, NoHostErr))
            /\ \E r \in SameButCorrelation(c, inbox[c].val) :
                 r.seq_no # inbox[c].val.seq_no /\ r.resp_key # inbox[c].val.resp_key
            /\ result'[c].tag \in {"Ok", "Encoding", "Dynamic"}
      ]_vars

\* An endpoint call returned Ok on a reply whose resp_key and seq_no are both
\* different from the request's.
ProxyResultIndependenceWitness ==
    \E c \in Callers :
        /\ pc[c] = "done"
        /\ result[c].tag = "Ok"
        /\ trace[c] # <<>>
        /\ LET last == Last(trace[c])
           IN /\ last.ep = "Proxy"
              /\ last.res.st = "ok"
              /\ last.res.val.variant = "Ok"
              /\ last.res.val.seq_no # last.req.seq_no
              /\ last.res.val.resp_key # last.req.resp_key

====
